---- MODULE Spec2Model ----
(***************************************************************************)
(* datasheetminer: the extraction-reconciliation-and-persistence pipeline. *)
(*                                                                         *)
(*   - parse_gemini_response (utils.py): raw model text -> list of JSON    *)
(*     objects, by json.loads of the whole text or, when that raises       *)
(*     JSONDecodeError, by the brace-depth scan;                            *)
(*   - process_datasheet (scraper.py): derives a uuid5 id per record,      *)
(*     looks the id up, and batch-writes to the table;                     *)
(*   - DynamoDBClient / DynamoDBHandler (db/dynamo.py, database.py): the   *)
(*     single-table store.                                                 *)
(*                                                                         *)
(* Text is a sequence of one-character strings, so that json.loads, the    *)
(* scan, str.strip, str.lower and re.sub are modelled by what they do to   *)
(* the characters.                                                         *)
(***************************************************************************)
EXTENDS Integers, Sequences, FiniteSets, TLC

VARIABLES
    \* ---- parse_gemini_response ----
    raw_text,       \* response.text.strip()
    ppc,            \* where the parse is: "primary", "scan", "parsed", "failed"
    content,        \* raw_text[list_start + 1:]
    pos,            \* number of characters of content the scan has consumed
    current_obj,    \* the scan's accumulated candidate
    brace_depth,
    in_string,
    escape_next,
    parsed_json,    \* the list of objects recovered so far
    perr,           \* the ValueError raised, or "none"
    fallback_tried, \* whether the except-branch (strategy 2) was entered
    trunc_warning,  \* whether the "appears truncated" warning was logged
    src_objs,       \* the object texts the input array was built from
    src_cut,        \* the number of characters of the array text that were kept
    \* ---- the table ----
    store,          \* <<PK, SK>> -> item
    \* ---- process_datasheet ----
    ipc,            \* "idle", "loop", "batch"
    run,            \* number of process_datasheet calls started
    doc,            \* the arguments of the call in progress
    models,         \* parsed_models, product_id assigned as the loop goes
    idx,            \* loop index into models (1-based); Len+1 when the loop is over
    valid_models,
    checks,         \* history: the existence checks of the call in progress
    put_log,        \* history: the puts the call handed to the batch writer
    assigned,       \* history: the normalized keys the loops met, with the ids given
    outcome,        \* the call's return value
    counts,         \* success_count and failure_count of the call
    last_lookup,    \* the last read() made by another client, and what it returned
    \* ---- concurrent create() ----
    wpc,            \* worker -> "start", "done"
    wrec,           \* worker -> the record it creates
    wapi,           \* worker -> "client" (DynamoDBClient.create) or "handler" (DynamoDBHandler.create_item)
    wres,           \* worker -> "none", "ok" (returned normally), "conflict" (the condition failed)
    wprior,         \* history: worker -> the item at its key when its put arrived, or NoItem
    wafter,         \* history: worker -> the item at its key right after its put
    store0,         \* the table as it was before the workers started
    \* ---- destructive maintenance operations ----
    dpc,            \* "idle", "scan", "prompt", "delete", "done"
    dop,            \* the operation called and its arguments, or NoDoc
    ditems,         \* the items the scan or query returned, in the order returned
    dnext,          \* index into ditems of the next batch to delete
    dtyped,         \* what the caller typed at the prompt, or None if never asked
    dresult,        \* the count the call returns
    dissued,        \* history: the keys of the delete requests the call issued
    dstore0,        \* history: the table when the call started
    dorder,         \* the order in which a scan walks the table's items
    \* ---- normalize_string, applied to two strings ----
    npc,            \* "idle", "args", "done"
    ns_a,           \* the first string
    ns_b,           \* the second string
    nr_a,           \* normalize_string(ns_a)
    nr_b,           \* normalize_string(ns_b)
    \* ---- parse_gemini_response: entry, id stripping and validation ----
    rpc,            \* "idle", "entry", "text", "validate", "returned", "raised"
    response,       \* the response object, or NoDoc
    rtype,          \* the product_type argument
    raw_objs,       \* history: parsed_json as the strategies left it
    vidx,           \* index of the next item of the validation loop (1-based)
    validated_models,
    rkept,          \* history: the indices of the items that were appended
    rerr,           \* the exception that left the function, or "none"
    rresult,        \* the list returned
    \* ---- main: the bulk scrape (--scrape-all) ----
    bpc,            \* "idle", "loop", "done"
    all_datasheets, \* the list client.get_all_datasheets() returned
    bidx,           \* index of the next datasheet of the for loop (1-based)
    success_count,
    skip_count,
    fail_count,
    blog,           \* history: the datasheets process_datasheet was called with
    bresults,       \* history: how each of those calls ended
    \* ---- generate_content under @retry ----
    gpc,            \* "idle", "attempt", "returned", "raised"
    attempt_number, \* tenacity's retry_state.attempt_number
    goutcomes,      \* history: how each attempt ended
    gdoc,           \* what process_datasheet makes of the call: "none", "parsing", "failed"
    \* ---- a destructive operation run again ----
    xrun,           \* 0: no call; 1: first run; 2: stopped; 3: run again
    xstore0,        \* the table when the first run was called
    \* ---- lambda_handler ----
    lpc,            \* "idle", "event", "analyze", "returned"
    levent,         \* event: the API Gateway event
    lret,           \* the handler's return value: status code and error type
    lcalls,         \* number of calls of analyze_document
    \* ---- migrate_items ----
    mpc,            \* "idle", "scan", "confirm", "migrate", "done"
    mdry,           \* dry_run
    items_to_migrate,
    midx,           \* index of the next item of items_to_migrate
    mcounts         \* success_count and error_count

parseVars  == <<raw_text, ppc, content, pos, current_obj, brace_depth, in_string,
                escape_next, parsed_json, perr, fallback_tried, trunc_warning,
                src_objs, src_cut>>
ingestVars == <<ipc, run, doc, models, idx, valid_models, checks, put_log, assigned,
                outcome, counts, last_lookup>>
createVars == <<wpc, wrec, wapi, wres, wprior, wafter, store0>>
deleteVars == <<dpc, dop, ditems, dnext, dtyped, dresult, dissued, dstore0, dorder>>
normVars   == <<npc, ns_a, ns_b, nr_a, nr_b>>
reconcileVars == <<rpc, response, rtype, raw_objs, vidx, validated_models, rkept,
                   rerr, rresult>>
bulkVars   == <<bpc, all_datasheets, bidx, success_count, skip_count, fail_count,
                blog, bresults>>
retryVars  == <<gpc, attempt_number, goutcomes, gdoc>>
rerunVars  == <<xrun, xstore0>>
lambdaVars == <<lpc, levent, lret, lcalls>>
migrateVars == <<mpc, mdry, items_to_migrate, midx, mcounts>>
lastVars   == <<retryVars, rerunVars, lambdaVars, migrateVars>>
priorVars  == <<parseVars, ingestVars, createVars, deleteVars, normVars, reconcileVars,
                bulkVars>>
laterVars  == <<reconcileVars, bulkVars, lastVars>>
otherVars  == <<deleteVars, normVars, laterVars>>
vars       == <<parseVars, store, ingestVars, createVars, otherVars>>

\* Python's None where a str is expected: a one-element sequence whose element
\* is no character, so it differs from every text
None == <<"None">>

\* None where an item or a call's arguments are expected
NoItem == [absent |-> TRUE]
NoDoc  == [absent |-> TRUE]

----------------------------------------------------------------------------
(* Characters and strings                                                  *)

Whitespace == {" "}
Digits     == {"0", "1", "2", "3", "4", "5", "6", "7", "8", "9"}
HexDigits  == Digits \cup {"a", "b", "c", "d", "e", "f", "A", "B", "C", "D", "E", "F"}

RECURSIVE LStrip(_)
LStrip(s) == IF s # <<>> /\ Head(s) \in Whitespace THEN LStrip(Tail(s)) ELSE s

RECURSIVE RStripSet(_, _)
RStripSet(s, cs) ==
    IF s # <<>> /\ s[Len(s)] \in cs THEN RStripSet(SubSeq(s, 1, Len(s) - 1), cs) ELSE s

\* str.strip()
StrStrip(s) == RStripSet(LStrip(s), Whitespace)

\* str.rstrip(",")
RStripComma(s) == RStripSet(s, {","})

\* str.find("["): the 1-based index of the first "[", 0 when there is none
RECURSIVE FindFrom(_, _, _)
FindFrom(s, c, i) ==
    IF i > Len(s) THEN 0
    ELSE IF s[i] = c THEN i
    ELSE FindFrom(s, c, i + 1)

RECURSIVE Concat(_)
Concat(ss) == IF ss = <<>> THEN <<>> ELSE Head(ss) \o Concat(Tail(ss))

----------------------------------------------------------------------------
(* json.loads, over the characters of the model                            *)
(*                                                                         *)
(* A value is [t |-> "str", chars], [t |-> "num", n], [t |-> "lit", name], *)
(* [t |-> "arr", a] or [t |-> "obj", m], m a function from key to value    *)
(* (a dict: a repeated key keeps the last value).  Fractions and exponents *)
(* are outside the model's inputs.                                         *)

Fail == [ok |-> FALSE]
Ok(v, p) == [ok |-> TRUE, v |-> v, p |-> p]

RECURSIVE SkipWs(_, _)
SkipWs(s, p) == IF p <= Len(s) /\ s[p] \in Whitespace THEN SkipWs(s, p + 1) ELSE p

ControlEscape == [c \in {"b", "f", "n", "r", "t"} |-> "\\" \o c]

\* p is the first character after the opening quote
RECURSIVE ScanString(_, _, _)
ScanString(s, p, acc) ==
    IF p > Len(s) THEN Fail
    ELSE IF s[p] = "\"" THEN Ok([t |-> "str", chars |-> acc], p + 1)
    ELSE IF s[p] = "\\" THEN
        IF p + 1 > Len(s) THEN Fail
        ELSE IF s[p + 1] \in {"\"", "\\", "/"}
            THEN ScanString(s, p + 2, Append(acc, s[p + 1]))
        ELSE IF s[p + 1] \in DOMAIN ControlEscape
            THEN ScanString(s, p + 2, Append(acc, ControlEscape[s[p + 1]]))
        ELSE IF s[p + 1] = "u" /\ p + 5 <= Len(s)
                /\ \A k \in 2..5 : s[p + k] \in HexDigits
            THEN ScanString(s, p + 6,
                    Append(acc, "\\u" \o s[p + 2] \o s[p + 3] \o s[p + 4] \o s[p + 5]))
        ELSE Fail
    ELSE ScanString(s, p + 1, Append(acc, s[p]))

DigitVal == [c \in Digits |-> CHOOSE n \in 0..9 : ToString(n) = c]

RECURSIVE ScanDigits(_, _, _)
ScanDigits(s, p, n) ==
    IF p <= Len(s) /\ s[p] \in Digits
        THEN ScanDigits(s, p + 1, 10 * n + DigitVal[s[p]])
        ELSE [n |-> n, p |-> p]

\* NUMBER_RE's integer part: -?(0|[1-9]\d*)
ScanNumber(s, p) ==
    LET neg == s[p] = "-"
        q   == IF neg THEN p + 1 ELSE p
    IN  IF q > Len(s) \/ s[q] \notin Digits THEN Fail
        ELSE IF s[q] = "0" THEN Ok([t |-> "num", n |-> 0], q + 1)
        ELSE LET d == ScanDigits(s, q, 0)
             IN  Ok([t |-> "num", n |-> IF neg THEN 0 - d.n ELSE d.n], d.p)

Literals == { <<"n", "u", "l", "l">>, <<"t", "r", "u", "e">>, <<"f", "a", "l", "s", "e">> }

StartsWith(s, p, w) == p + Len(w) - 1 <= Len(s) /\ SubSeq(s, p, p + Len(w) - 1) = w

RECURSIVE ParseValue(_, _), ParseMembers(_, _, _), ParseElements(_, _, _)

\* scanner.scan_once at index p
ParseValue(s, p) ==
    IF p > Len(s) THEN Fail
    ELSE IF s[p] = "\"" THEN ScanString(s, p + 1, <<>>)
    ELSE IF s[p] = "{" THEN
        LET q == SkipWs(s, p + 1)
        IN  IF q <= Len(s) /\ s[q] = "}"
                THEN Ok([t |-> "obj", m |-> <<>>], q + 1)
                ELSE ParseMembers(s, q, <<>>)
    ELSE IF s[p] = "[" THEN
        LET q == SkipWs(s, p + 1)
        IN  IF q <= Len(s) /\ s[q] = "]"
                THEN Ok([t |-> "arr", a |-> <<>>], q + 1)
                ELSE ParseElements(s, q, <<>>)
    ELSE IF \E w \in Literals : StartsWith(s, p, w) THEN
        LET w == CHOOSE w \in Literals : StartsWith(s, p, w)
        IN  Ok([t |-> "lit", name |-> w], p + Len(w))
    ELSE IF s[p] \in Digits \cup {"-"} THEN ScanNumber(s, p)
    ELSE Fail

\* JSONObject: p is where a key's opening quote is expected
ParseMembers(s, p, m) ==
    IF p > Len(s) \/ s[p] # "\"" THEN Fail
    ELSE LET k == ScanString(s, p + 1, <<>>) IN
    IF ~k.ok THEN Fail
    ELSE LET c == SkipWs(s, k.p) IN
    IF c > Len(s) \/ s[c] # ":" THEN Fail
    ELSE LET v == ParseValue(s, SkipWs(s, c + 1)) IN
    IF ~v.ok THEN Fail
    ELSE LET m2 == (k.v.chars :> v.v) @@ m
             e  == SkipWs(s, v.p) IN
    IF e > Len(s) THEN Fail
    ELSE IF s[e] = "}" THEN Ok([t |-> "obj", m |-> m2], e + 1)
    ELSE IF s[e] = "," THEN ParseMembers(s, SkipWs(s, e + 1), m2)
    ELSE Fail

\* JSONArray: p is where the next element is expected
ParseElements(s, p, a) ==
    LET v == ParseValue(s, p) IN
    IF ~v.ok THEN Fail
    ELSE LET a2 == Append(a, v.v)
             e  == SkipWs(s, v.p) IN
    IF e > Len(s) THEN Fail
    ELSE IF s[e] = "]" THEN Ok([t |-> "arr", a |-> a2], e + 1)
    ELSE IF s[e] = "," THEN ParseElements(s, SkipWs(s, e + 1), a2)
    ELSE Fail

\* json.loads(s): [ok |-> FALSE] stands for JSONDecodeError
JsonLoads(s) ==
    LET r == ParseValue(s, SkipWs(s, 1))
    IN  IF ~r.ok THEN Fail
        ELSE IF SkipWs(s, r.p) # Len(s) + 1 THEN Fail
        ELSE r

----------------------------------------------------------------------------
(* Inputs of parse_gemini_response                                         *)

MaxObjs == 3

\* {"a":1}
ObjA == <<"{", "\"", "a", "\"", ":", "1", "}">>
\* {"s":"}{"}
ObjS == <<"{", "\"", "s", "\"", ":", "\"", "}", "{", "\"", "}">>
\* {"a":{"x":"\""}}
ObjN == <<"{", "\"", "a", "\"", ":", "{", "\"", "x", "\"", ":", "\"", "\\", "\"", "\"", "}", "}">>

ObjTexts == {ObjA, ObjS, ObjN}

SeqsUpTo(S, n) == UNION { [1..k -> S] : k \in 0..n }

RECURSIVE JoinComma(_)
JoinComma(objs) ==
    IF objs = <<>> THEN <<>>
    ELSE IF Len(objs) = 1 THEN objs[1]
    ELSE objs[1] \o <<",">> \o JoinComma(Tail(objs))

\* the text of a JSON array of the given objects
ArrayText(objs) == <<"[">> \o JoinComma(objs) \o <<"]">>

\* texts that are not (a prefix of) such an array
OtherTexts == {
    \* 7
    <<"7">>,
    \* null
    <<"n", "u", "l", "l">>,
    \* "[a]"
    <<"\"", "[", "a", "]", "\"">>,
    \* {"a":1}
    <<"{", "\"", "a", "\"", ":", "1", "}">>,
    \*  [{"a":1}]   (surrounding blanks)
    <<" ", "[", "{", "\"", "a", "\"", ":", "1", "}", "]", " ">>,
    \* x[{"a":1}]
    <<"x", "[", "{", "\"", "a", "\"", ":", "1", "}", "]">>,
    \* [{"a":1}]]
    <<"[", "{", "\"", "a", "\"", ":", "1", "}", "]", "]">>,
    \* [{"a":1} {"a":2}]
    <<"[", "{", "\"", "a", "\"", ":", "1", "}", " ", "{", "\"", "a", "\"", ":", "2", "}", "]">>,
    \* [{"a":1}}{"a":2}]
    <<"[", "{", "\"", "a", "\"", ":", "1", "}", "}", "{", "\"", "a", "\"", ":", "2", "}", "]">>,
    \* {"a":1},{"a":2}
    <<"{", "\"", "a", "\"", ":", "1", "}", ",", "{", "\"", "a", "\"", ":", "2", "}">>,
    \* [{},{"a":1}]
    <<"[", "{", "}", ",", "{", "\"", "a", "\"", ":", "1", "}", "]">>
}

NotCut == 0 - 1

----------------------------------------------------------------------------
(* parse_gemini_response: the text strategies                              *)

ScanReset ==
    /\ content = <<>>
    /\ pos = 0
    /\ current_obj = <<>>
    /\ brace_depth = 0
    /\ in_string = FALSE
    /\ escape_next = FALSE

InitParseState ==
    /\ ppc = "primary"
    /\ ScanReset
    /\ parsed_json = <<>>
    /\ perr = "none"
    /\ fallback_tried = FALSE
    /\ trunc_warning = FALSE

\* no response is being parsed
ParseIdle ==
    /\ raw_text = <<>>
    /\ ppc = "idle"
    /\ ScanReset
    /\ parsed_json = <<>>
    /\ perr = "none"
    /\ fallback_tried = FALSE
    /\ trunc_warning = FALSE
    /\ src_objs = <<>>
    /\ src_cut = NotCut

\* "if raw_text and not raw_text.endswith("]")": the truncation warning
LooksTruncated(text) == text # <<>> /\ text[Len(text)] # "]"

\* Strategy without the isinstance(list) test: an array is wrapped like a dict
Strategy_ListWrapped(r, text) ==
    IF ~r.ok THEN "fallback"
    ELSE IF r.v.t \in {"arr", "obj"} THEN "dict"
    ELSE "neither"

\* Strategy with the fallback gated by the truncation heuristic
Strategy_GatedByHeuristic(r, text) ==
    IF ~r.ok THEN (IF LooksTruncated(text) THEN "fallback" ELSE "neither")
    ELSE IF r.v.t = "arr" THEN "list"
    ELSE IF r.v.t = "obj" THEN "dict"
    ELSE "neither"

\* Which branch of the try/except the result r of json.loads(text) takes:
\* "list", "dict", "neither" (the ValueError raised inside the try, which
\* "except json.JSONDecodeError" does not catch) or "fallback".
Strategy(r, text) ==
    IF ~r.ok THEN "fallback"
    ELSE IF r.v.t = "arr" THEN "list"
    ELSE IF r.v.t = "obj" THEN "dict"
    ELSE "neither"

\* Strategy 1 (json.loads of the whole text) and, on JSONDecodeError, the
\* setup of strategy 2 up to the start of the scan.
Primary ==
    /\ ppc = "primary"
    /\ trunc_warning' = LooksTruncated(raw_text)
    /\ LET r == JsonLoads(raw_text)
           branch == Strategy(r, raw_text)
           list_start == FindFrom(raw_text, "[", 1)
       IN  IF branch = "list" THEN
               /\ parsed_json' = r.v.a
               /\ ppc' = "parsed"
               /\ UNCHANGED <<content, perr, fallback_tried>>
           ELSE IF branch = "dict" THEN
               /\ parsed_json' = <<r.v>>
               /\ ppc' = "parsed"
               /\ UNCHANGED <<content, perr, fallback_tried>>
           ELSE IF branch = "neither" THEN
               /\ perr' = "neither_list_nor_dict"
               /\ ppc' = "failed"
               /\ UNCHANGED <<content, parsed_json, fallback_tried>>
           ELSE IF list_start = 0 THEN
               /\ fallback_tried' = TRUE
               /\ perr' = "no_array"
               /\ ppc' = "failed"
               /\ UNCHANGED <<content, parsed_json>>
           ELSE
               /\ fallback_tried' = TRUE
               /\ content' = SubSeq(raw_text, list_start + 1, Len(raw_text))
               /\ ppc' = "scan"
               /\ UNCHANGED <<perr, parsed_json>>
    /\ UNCHANGED <<raw_text, pos, current_obj, brace_depth, in_string, escape_next,
                   src_objs, src_cut>>
    /\ UNCHANGED <<store, ingestVars, createVars, otherVars>>

\* the candidate a closing brace at depth 0 hands to json.loads
ObjStr(cur) == RStripComma(StrStrip(cur))

\* one iteration of "for char in content"
ScanChar ==
    /\ ppc = "scan"
    /\ pos < Len(content)
    /\ pos' = pos + 1
    /\ LET char == content[pos + 1] IN
       IF escape_next THEN
           /\ current_obj' = Append(current_obj, char)
           /\ escape_next' = FALSE
           /\ UNCHANGED <<brace_depth, in_string, parsed_json>>
       ELSE IF char = "\\" THEN
           /\ escape_next' = TRUE
           /\ current_obj' = Append(current_obj, char)
           /\ UNCHANGED <<brace_depth, in_string, parsed_json>>
       ELSE
           LET ins    == IF char = "\"" THEN ~in_string ELSE in_string
               cur    == Append(current_obj, char)
               depth  == IF ins THEN brace_depth
                         ELSE IF char = "{" THEN brace_depth + 1
                         ELSE IF char = "}" THEN brace_depth - 1
                         ELSE brace_depth
               closed == ~ins /\ char = "}" /\ depth = 0
               obj_str == ObjStr(cur)
               r      == JsonLoads(obj_str)
           IN  /\ in_string' = ins
               /\ brace_depth' = depth
               /\ current_obj' = IF closed THEN <<>> ELSE cur
               /\ parsed_json' =
                     IF closed /\ obj_str # <<>> /\ obj_str # <<"{", "}">> /\ r.ok
                         THEN Append(parsed_json, r.v)
                         ELSE parsed_json
               /\ UNCHANGED escape_next
    /\ UNCHANGED <<raw_text, ppc, content, perr, fallback_tried, trunc_warning,
                   src_objs, src_cut>>
    /\ UNCHANGED <<store, ingestVars, createVars, otherVars>>

\* after the loop: "if not parsed_json: raise ValueError"
ScanEnd ==
    /\ ppc = "scan"
    /\ pos = Len(content)
    /\ IF parsed_json = <<>>
          THEN ppc' = "failed" /\ perr' = "no_objects"
          ELSE ppc' = "parsed" /\ UNCHANGED perr
    /\ UNCHANGED <<raw_text, content, pos, current_obj, brace_depth, in_string,
                   escape_next, parsed_json, fallback_tried, trunc_warning,
                   src_objs, src_cut>>
    /\ UNCHANGED <<store, ingestVars, createVars, otherVars>>

----------------------------------------------------------------------------
(* Records, ids and storage keys                                           *)

UpperLetters == <<"A", "B", "C", "D", "E", "F", "G", "H", "I", "J", "K", "L", "M",
                  "N", "O", "P", "Q", "R", "S", "T", "U", "V", "W", "X", "Y", "Z">>
LowerLetters == <<"a", "b", "c", "d", "e", "f", "g", "h", "i", "j", "k", "l", "m",
                  "n", "o", "p", "q", "r", "s", "t", "u", "v", "w", "x", "y", "z">>

Range(f) == { f[i] : i \in DOMAIN f }

LowerChar(c) ==
    IF c \in Range(UpperLetters)
        THEN LowerLetters[CHOOSE i \in DOMAIN UpperLetters : UpperLetters[i] = c]
        ELSE c

UpperChar(c) ==
    IF c \in Range(LowerLetters)
        THEN UpperLetters[CHOOSE i \in DOMAIN LowerLetters : LowerLetters[i] = c]
        ELSE c

\* Characters outside ASCII are written by their code point.  Two of them have
\* a lower-case form that holds an ASCII letter: U+0130 (capital I with dot
\* above) becomes "i" followed by U+0307, and U+212A (the Kelvin sign) becomes "k".
LowerSeq(c) ==
    IF c = "U+0130" THEN <<"i", "U+0307">>
    ELSE IF c = "U+212A" THEN <<"k">>
    ELSE <<LowerChar(c)>>

\* str.lower(), str.upper()
StrLower(s) == Concat([i \in DOMAIN s |-> LowerSeq(s[i])])
StrUpper(s) == [i \in DOMAIN s |-> UpperChar(s[i])]

IsAlnumLower(c) == c \in Range(LowerLetters) \cup Digits

\* normalize_string without the lower(): upper-case letters are deleted
NormalizeString_NoLower(s) ==
    IF s = None \/ s = <<>> THEN <<>>
    ELSE SelectSeq(StrStrip(s), IsAlnumLower)

\* normalize_string: "" for None or "", else lower, strip, delete [^a-z0-9]
NormalizeString(s) ==
    IF s = None \/ s = <<>> THEN <<>>
    ELSE SelectSeq(StrStrip(StrLower(s)), IsAlnumLower)

PRODUCT_NAMESPACE == "6ba7b810-9dad-11d1-80b4-00c04fd430c8"

\* uuid.uuid5(namespace, name): a function of (namespace, name), taken to be free
\* of collisions
Uuid5(namespace, name) == [kind |-> "uuid5", ns |-> namespace, name |-> name]

\* Field(default_factory=uuid4): a random id, the n-th drawn; no two are equal
Uuid4(n) == [kind |-> "uuid4", n |-> n]

\* the normalized manufacturer the loop uses: the record's, or else the caller's
NormManufacturer(model, manufacturer) ==
    IF NormalizeString(model.manufacturer) # <<>>
        THEN NormalizeString(model.manufacturer)
        ELSE NormalizeString(manufacturer)

\* IdString that ignores the part number when the record has a product name
IdString_NameFirst(model, manufacturer) ==
    LET norm_manufacturer == NormManufacturer(model, manufacturer)
        norm_part_number  == NormalizeString(model.part_number)
        norm_name         == NormalizeString(model.product_name)
    IN  IF norm_manufacturer # <<>> /\ norm_name # <<>>
            THEN norm_manufacturer \o <<":">> \o norm_name
        ELSE IF norm_manufacturer # <<>> /\ norm_part_number # <<>>
            THEN norm_manufacturer \o <<":">> \o norm_part_number
        ELSE None

\* IdString without the "elif norm_manufacturer and norm_name" branch
IdString_NoNameFallback(model, manufacturer) ==
    LET norm_manufacturer == NormManufacturer(model, manufacturer)
        norm_part_number  == NormalizeString(model.part_number)
    IN  IF norm_manufacturer # <<>> /\ norm_part_number # <<>>
            THEN norm_manufacturer \o <<":">> \o norm_part_number
        ELSE None

\* id_string of the loop, None when the record is skipped for want of a key
IdString(model, manufacturer) ==
    LET norm_manufacturer == NormManufacturer(model, manufacturer)
        norm_part_number  == NormalizeString(model.part_number)
        norm_name         == NormalizeString(model.product_name)
    IN  IF norm_manufacturer # <<>> /\ norm_part_number # <<>>
            THEN norm_manufacturer \o <<":">> \o norm_part_number
        ELSE IF norm_manufacturer # <<>> /\ norm_name # <<>>
            THEN norm_manufacturer \o <<":">> \o norm_name
        ELSE None

Undefined == <<"PydanticUndefined">>

TypeRobotArm == <<"r", "o", "b", "o", "t", "_", "a", "r", "m">>
TypeGearhead == <<"g", "e", "a", "r", "h", "e", "a", "d">>

\* SCHEMA_CHOICES: module name -> the ProductBase subclass found in it
SchemaChoices == (TypeRobotArm :> "RobotArm") @@ (TypeGearhead :> "Gearhead")

\* model_class.model_fields["product_type"].default
ClassDefault ==
    [ProductBase |-> Undefined, Gearhead |-> Undefined, RobotArm |-> TypeRobotArm]

\* ProductBase.PK, ProductBase.SK
PK(product_type) == <<"PRODUCT#", StrUpper(product_type)>>
SK(product_id)   == <<"PRODUCT#", product_id>>
KeyOf(model)     == <<PK(model.product_type), SK(model.product_id)>>

\* _serialize_item: the model's fields plus PK and SK (a field that is None
\* stands for an attribute that exclude_none leaves out)
SerializeItem(model) ==
    [PK |-> PK(model.product_type), SK |-> SK(model.product_id),
     product_id |-> model.product_id, product_type |-> model.product_type,
     manufacturer |-> model.manufacturer, part_number |-> model.part_number,
     product_name |-> model.product_name, attr |-> model.attr]

\* DynamoDBClient.read: the key is built from the class's default product_type;
\* a class without one makes .upper() raise, and the except returns None
Read(tbl, product_id, model_class) ==
    IF ClassDefault[model_class] = Undefined THEN NoItem
    ELSE LET key == <<PK(ClassDefault[model_class]), SK(product_id)>>
         IN  IF key \in DOMAIN tbl THEN tbl[key] ELSE NoItem

\* the items of a partition
Partition(tbl, pk) == { tbl[k] : k \in { k \in DOMAIN tbl : k[1] = pk } }

\* DynamoDBClient.product_exists: a Query with Limit=1 evaluates the filter on
\* one item of the partition, the first in sort-key order; ids are hashes, so
\* any item of the partition may be that one.  The set of possible answers.
ProductExists(tbl, product_type, manufacturer, product_name) ==
    LET items == Partition(tbl, PK(product_type))
    IN  IF items = {} THEN {FALSE}
        ELSE { it.manufacturer = manufacturer /\ it.product_name = product_name :
               it \in items }

\* put_item: an unconditional write
Put(tbl, item) == (<<item.PK, item.SK>> :> item) @@ tbl

RECURSIVE PutAll(_, _)
PutAll(tbl, items) ==
    IF items = <<>> THEN tbl ELSE PutAll(Put(tbl, Head(items)), Tail(items))

\* BatchWriteItem rejects a request that names one key twice
HasDuplicateKeys(items) ==
    \E i, j \in DOMAIN items : i < j /\ items[i].PK = items[j].PK /\ items[i].SK = items[j].SK

BatchSize == 25
FlushAmount == 25

\* The inner loop of batch_create over one chunk, from item i on.
\* w = [tbl, buffer, count]: the table, the batch writer's buffer, success_count.
\* writer.put_item appends and flushes a full buffer; a flush that raises does so
\* inside the inner try, after the buffer was emptied, and the item is not counted.
RECURSIVE WriterPuts(_, _, _)
WriterPuts(w, chunk, i) ==
    IF i > Len(chunk) THEN w
    ELSE LET buffer == Append(w.buffer, SerializeItem(chunk[i]))
         IN  IF Len(buffer) >= FlushAmount
                THEN IF HasDuplicateKeys(buffer)
                        THEN WriterPuts([w EXCEPT !.buffer = <<>>], chunk, i + 1)
                        ELSE WriterPuts([tbl |-> PutAll(w.tbl, buffer), buffer |-> <<>>,
                                         count |-> w.count + 1], chunk, i + 1)
                ELSE WriterPuts([w EXCEPT !.buffer = buffer, !.count = w.count + 1],
                                chunk, i + 1)

\* batch_create from model index i on: chunk by chunk, each under its own batch
\* writer, whose exit flushes the buffer; a ClientError there ends the call with
\* the count so far.
RECURSIVE BatchCreateFrom(_, _, _)
BatchCreateFrom(tbl, ms, count) ==
    IF ms = <<>> THEN [tbl |-> tbl, count |-> count]
    ELSE LET n     == IF Len(ms) < BatchSize THEN Len(ms) ELSE BatchSize
             chunk == SubSeq(ms, 1, n)
             rest  == SubSeq(ms, n + 1, Len(ms))
             w     == WriterPuts([tbl |-> tbl, buffer |-> <<>>, count |-> count], chunk, 1)
         IN  IF HasDuplicateKeys(w.buffer)
                THEN [tbl |-> w.tbl, count |-> w.count]
                ELSE BatchCreateFrom(PutAll(w.tbl, w.buffer), rest, w.count)

\* DynamoDBClient.batch_create: [tbl |-> the table afterwards, count |-> success_count]
BatchCreate(tbl, ms) == BatchCreateFrom(tbl, ms, 0)

----------------------------------------------------------------------------
(* process_datasheet                                                       *)

MaxRuns == 2

StrACME   == <<"A", "C", "M", "E">>
StrAcme   == <<"a", "c", "m", "e">>
StrA1     == <<"A", "1">>
StrA1Dash == <<"a", "-", "1">>
StrBlank  == <<" ">>
StrX      == <<"X">>
StrY      == <<"Y">>

\* what the model returned for one product, as parse_gemini_response validated it
Candidates == {
    [manufacturer |-> StrACME, part_number |-> StrA1,     product_name |-> None, attr |-> 1],
    [manufacturer |-> StrAcme, part_number |-> StrA1Dash, product_name |-> StrX, attr |-> 2],
    [manufacturer |-> StrACME, part_number |-> None,      product_name |-> StrX, attr |-> 1],
    [manufacturer |-> <<>>,    part_number |-> StrBlank,  product_name |-> StrY, attr |-> 1],
    [manufacturer |-> StrACME, part_number |-> StrBlank,  product_name |-> None, attr |-> 1]
}

\* the arguments of a call and the models its response parses to: none, one or two
Docs ==
    [product_type : DOMAIN SchemaChoices,
     manufacturer : {StrACME},
     product_name : {StrX},
     parsed       : SeqsUpTo(Candidates, 2)]

\* uuid4 ids are fresh: the i-th after those the table already holds
FreshBase(tbl) ==
    LET used == { tbl[k].product_id.n : k \in { k \in DOMAIN tbl : tbl[k].product_id.kind = "uuid4" } }
    IN  IF used = {} THEN 0 ELSE CHOOSE n \in used : \A m \in used : m <= n

\* the loop's locals, as they are before a call and after its return
NoCall ==
    /\ doc = NoDoc
    /\ models = <<>>
    /\ idx = 0
    /\ valid_models = <<>>
    /\ checks = {}
    /\ put_log = {}
    /\ outcome = "none"
    /\ counts = [success |-> 0, failure |-> 0]

\* process_datasheet up to the loop: the product_exists short-circuit, then
\* fetch, generate_content and parse_gemini_response, which leave parsed_models
StartRun ==
    /\ ipc = "idle"
    /\ run < MaxRuns
    /\ run' = run + 1
    /\ \E d \in Docs :
       \E ex \in ProductExists(store, d.product_type, d.manufacturer, d.product_name) :
          /\ doc' = d
          /\ IF ex THEN
                 /\ outcome' = "skipped"
                 /\ ipc' = "return"
                 /\ UNCHANGED <<models, idx>>
             ELSE IF d.parsed = <<>> THEN
                 /\ outcome' = "failed"
                 /\ ipc' = "return"
                 /\ UNCHANGED <<models, idx>>
             ELSE
                 /\ models' = [i \in DOMAIN d.parsed |->
                                 [manufacturer |-> d.parsed[i].manufacturer,
                                  part_number  |-> d.parsed[i].part_number,
                                  product_name |-> d.parsed[i].product_name,
                                  attr         |-> d.parsed[i].attr,
                                  product_type |-> d.product_type,
                                  product_id   |-> Uuid4(FreshBase(store) + i)]]
                 /\ idx' = 1
                 /\ ipc' = "loop"
                 /\ UNCHANGED outcome
    /\ UNCHANGED <<valid_models, checks, put_log, assigned, counts, last_lookup>>
    /\ UNCHANGED <<parseVars, store, createVars, otherVars>>

\* one iteration of "for model in parsed_models"
LoopStep ==
    /\ ipc = "loop"
    /\ idx <= Len(models)
    /\ idx' = idx + 1
    /\ LET model     == models[idx]
           id_string == IdString(model, doc.manufacturer)
       IN  IF id_string = None THEN
               \* "continue": the model stays in parsed_models with its uuid4 id
               UNCHANGED <<models, valid_models, checks, assigned>>
           ELSE
               LET m2       == [model EXCEPT !.product_id = Uuid5(PRODUCT_NAMESPACE, id_string)]
                   existing == Read(store, m2.product_id, "ProductBase")
               IN  /\ models' = [models EXCEPT ![idx] = m2]
                   /\ assigned' = assigned \cup
                         {[manufacturer      |-> model.manufacturer,
                           part_number       |-> model.part_number,
                           norm_manufacturer |-> NormManufacturer(model, doc.manufacturer),
                           norm_part_number  |-> NormalizeString(model.part_number),
                           product_id        |-> m2.product_id]}
                   /\ checks' = checks \cup
                         {[i |-> idx, existed |-> KeyOf(m2) \in DOMAIN store,
                           found |-> existing # NoItem]}
                   /\ valid_models' = IF existing # NoItem
                                         THEN valid_models
                                         ELSE Append(valid_models, m2)
    /\ UNCHANGED <<ipc, run, doc, put_log, outcome, counts, last_lookup>>
    /\ UNCHANGED <<parseVars, store, createVars, otherVars>>

\* after the loop: "client.batch_create(parsed_models)" and the return value
SaveToDb ==
    /\ ipc = "loop"
    /\ idx > Len(models)
    /\ LET r == BatchCreate(store, models)
       IN  /\ store' = r.tbl
           /\ counts' = [success |-> r.count, failure |-> Len(valid_models) - r.count]
           /\ outcome' = IF r.count > 0 THEN "success" ELSE "failed"
    /\ put_log' = { [i |-> i,
                     keyed   |-> models[i].product_id.kind = "uuid5",
                     existed |-> \E c \in checks : c.i = i /\ c.existed,
                     key     |-> KeyOf(models[i])] : i \in DOMAIN models }
    /\ ipc' = "return"
    /\ UNCHANGED <<run, doc, models, idx, valid_models, checks, assigned, last_lookup>>
    /\ UNCHANGED <<parseVars, createVars, otherVars>>

\* the call returns: its locals are gone
Return ==
    /\ ipc = "return"
    /\ ipc' = "idle"
    /\ doc' = NoDoc
    /\ models' = <<>>
    /\ idx' = 0
    /\ valid_models' = <<>>
    /\ checks' = {}
    /\ put_log' = {}
    /\ outcome' = "none"
    /\ counts' = [success |-> 0, failure |-> 0]
    /\ UNCHANGED <<run, assigned, last_lookup>>
    /\ UNCHANGED <<parseVars, store, createVars, otherVars>>

\* another client reads a stored record of type T by its id, read(X, T)
Lookup ==
    /\ ipc = "idle"
    /\ \E k \in DOMAIN store :
          LET item == store[k]
              cls  == SchemaChoices[item.product_type]
          IN  last_lookup' = [model_class |-> cls,
                              found |-> Read(store, item.product_id, cls) # NoItem]
    /\ UNCHANGED <<ipc, run, doc, models, idx, valid_models, checks, put_log, assigned,
                   outcome, counts>>
    /\ UNCHANGED <<parseVars, store, createVars, otherVars>>

----------------------------------------------------------------------------
(* create(): DynamoDBClient.create and DynamoDBHandler.create_item, called *)
(* by concurrent workers                                                   *)

Workers == {1, 2}

Apis == {"client", "handler", "handler_overwrite"}

\* a candidate as a model of the given type whose id the loop derived
Identified(c, product_type, manufacturer) ==
    [manufacturer |-> c.manufacturer, part_number |-> c.part_number,
     product_name |-> c.product_name, attr |-> c.attr,
     product_type |-> product_type,
     product_id   |-> Uuid5(PRODUCT_NAMESPACE, IdString(c, manufacturer))]

CreateRecs ==
    { Identified(c, TypeRobotArm, StrACME) :
        c \in { c \in Candidates : IdString(c, StrACME) # None } }

\* DynamoDBClient.create: put_item with no condition; returns True
ClientCreate(tbl, model) ==
    [tbl |-> Put(tbl, SerializeItem(model)), res |-> "ok"]

\* DynamoDBHandler.create_item: unless overwrite, the put carries
\* ConditionExpression attribute_not_exists(hash key); a failed condition raises
\* ClientError (ConditionalCheckFailedException) and writes nothing
HandlerCreateItem(tbl, item, overwrite) ==
    IF ~overwrite /\ <<item.PK, item.SK>> \in DOMAIN tbl
        THEN [tbl |-> tbl, res |-> "conflict"]
        ELSE [tbl |-> Put(tbl, item), res |-> "ok"]

\* a worker enters create(): the item is serialized, the request not yet sent
CreateBegin(w) ==
    /\ wpc[w] = "start"
    /\ wpc' = [wpc EXCEPT ![w] = "put"]
    /\ UNCHANGED <<wrec, wapi, wres, wprior, wafter, store0>>
    /\ UNCHANGED <<parseVars, store, ingestVars, otherVars>>

\* the worker's put_item reaches the table, and create() returns
CreatePut(w) ==
    /\ wpc[w] = "put"
    /\ LET item == SerializeItem(wrec[w])
           key  == <<item.PK, item.SK>>
           r    == IF wapi[w] = "client"
                      THEN ClientCreate(store, wrec[w])
                      ELSE HandlerCreateItem(store, item, wapi[w] = "handler_overwrite")
       IN  /\ store' = r.tbl
           /\ wres' = [wres EXCEPT ![w] = r.res]
           /\ wprior' = [wprior EXCEPT ![w] = IF key \in DOMAIN store THEN store[key] ELSE NoItem]
           /\ wafter' = [wafter EXCEPT ![w] = r.tbl[key]]
    /\ wpc' = [wpc EXCEPT ![w] = "done"]
    /\ UNCHANGED <<wrec, wapi, store0>>
    /\ UNCHANGED <<parseVars, ingestVars, otherVars>>

----------------------------------------------------------------------------
(* Destructive maintenance operations: DynamoDBClient.delete_all,          *)
(* delete_duplicates, delete_by_product_type, delete_by_product_family and *)
(* DataDeleter.delete_items                                                *)

StrF == <<"F">>
StrG == <<"G">>
StrDELETE == <<"D", "E", "L", "E", "T", "E">>

\* a stored item of type t with the n-th id
DelItem(t, n, pn, fam) ==
    [PK |-> PK(t), SK |-> SK(Uuid4(n)), product_id |-> Uuid4(n), product_type |-> t,
     manufacturer |-> StrACME, part_number |-> pn, product_name |-> StrX,
     product_family |-> fam]

\* the items a table may hold when a maintenance operation is called
StoredItems == {
    DelItem(TypeGearhead, 1, StrA1, StrF),
    DelItem(TypeGearhead, 2, StrA1, StrG),
    DelItem(TypeRobotArm, 3, StrA1, StrF),
    DelItem(TypeRobotArm, 4, None,  StrF)
}

ItemKey(item) == <<item.PK, item.SK>>

TableOf(items) ==
    [k \in { ItemKey(i) : i \in items } |-> CHOOSE i \in items : ItemKey(i) = k]

\* the calls: the operation, its flags and its arguments
DeleteOps ==
    [op : {"delete_all"}, confirm : BOOLEAN, dry_run : BOOLEAN,
     keep : {"first"}, product_type : {None}, product_family : {None}]
    \cup
    [op : {"delete_duplicates"}, confirm : BOOLEAN, dry_run : BOOLEAN,
     keep : {"first", "last", "newest"}, product_type : {None}, product_family : {None}]
    \cup
    [op : {"delete_by_product_type"}, confirm : BOOLEAN, dry_run : BOOLEAN,
     keep : {"first"}, product_type : {TypeGearhead}, product_family : {None}]
    \cup
    [op : {"delete_by_product_family"}, confirm : BOOLEAN, dry_run : BOOLEAN,
     keep : {"first"}, product_type : {None, TypeGearhead}, product_family : {StrF}]
    \cup
    [op : {"delete_items"}, confirm : BOOLEAN, dry_run : BOOLEAN,
     keep : {"first"}, product_type : {None, TypeGearhead}, product_family : {None, StrF}]

\* "if not confirm and not dry_run: ... return": the call refuses at once
Refused(o) == ~o.confirm /\ ~o.dry_run

\* delete_items: "if not filters_used: ... return"
NoFilter(o) ==
    o.op = "delete_items" /\ o.product_type = None /\ o.product_family = None

\* the phrase the operation asks the caller to type, None if it never asks:
\* only delete_items calls input()
PromptOf(op) == IF op = "delete_items" THEN StrDELETE ELSE None

\* the items the operation's scan or query returns
Scanned(tbl, o) ==
    LET all     == { tbl[k] : k \in DOMAIN tbl }
        inType  == IF o.product_type = None THEN all
                   ELSE Partition(tbl, PK(o.product_type))
    IN  CASE o.op \in {"delete_all", "delete_duplicates"} -> all
          [] o.op = "delete_by_product_type" -> inType
          [] OTHER ->
               { it \in inType :
                    o.product_family = None \/ it.product_family = o.product_family }

\* the orders in which a scan may return a set of items
Orderings(S) ==
    { q \in [1..Cardinality(S) -> S] : \A i, j \in DOMAIN q : q[i] = q[j] => i = j }

\* a scan returns the items it selects in the table's order
ScanOrder(S) == SelectSeq(dorder, LAMBDA it : it \in S)

\* the part numbers of the items, in order of first appearance (the keys of
\* the groups dict); items without a part number are not grouped
RECURSIVE GroupKeys(_, _)
GroupKeys(items, seen) ==
    IF items = <<>> THEN <<>>
    ELSE LET pn == Head(items).part_number
         IN  IF pn = None \/ pn = <<>> \/ pn \in seen
                THEN GroupKeys(Tail(items), seen)
                ELSE <<pn>> \o GroupKeys(Tail(items), seen \cup {pn})

\* sorted(group, key=str(product_id), reverse=True): ids in descending order
RECURSIVE SortNewest(_)
SortNewest(group) ==
    IF group = <<>> THEN <<>>
    ELSE LET m == CHOOSE i \in DOMAIN group :
                     \A j \in DOMAIN group : group[j].product_id.n <= group[i].product_id.n
             IsOther(it) == it # group[m]
         IN  <<group[m]>> \o SortNewest(SelectSeq(group, IsOther))

\* items_to_delete of delete_duplicates: of every group of two or more, all
\* but the item that keep selects
RECURSIVE DuplicatesToDelete(_, _, _)
DuplicatesToDelete(items, keys, keep) ==
    IF keys = <<>> THEN <<>>
    ELSE LET InGroup(it) == it.part_number = Head(keys)
             group == SelectSeq(items, InGroup)
             drop  == IF Len(group) <= 1 THEN <<>>
                      ELSE IF keep = "last" THEN SubSeq(group, 1, Len(group) - 1)
                      ELSE IF keep = "newest" THEN Tail(SortNewest(group))
                      ELSE Tail(group)
         IN  drop \o DuplicatesToDelete(items, Tail(keys), keep)

\* a deletion that keeps no item of a group: every item of the scan
ToDelete_All(items, o) == items

\* a deletion loop that stops after its first item
ToDelete_OnePerRun(items, o) ==
    LET all == IF o.op = "delete_duplicates"
                  THEN DuplicatesToDelete(items, GroupKeys(items, {}), o.keep)
                  ELSE items
    IN  IF all = <<>> THEN <<>> ELSE <<Head(all)>>

\* the items the live run would delete, given what the scan returned
ToDelete(items, o) ==
    IF o.op = "delete_duplicates"
        THEN DuplicatesToDelete(items, GroupKeys(items, {}), o.keep)
        ELSE items

\* dry_run wins even when confirm is not set aside: a gate that lets confirm decide
DeleteGate_ConfirmFirst(o, n) ==
    IF o.dry_run /\ ~o.confirm THEN "report"
    ELSE IF n = 0 THEN "empty"
    ELSE IF PromptOf(o.op) # None THEN "prompt"
    ELSE "delete"

\* what the call does once it knows the n items it would delete
DeleteGate(o, n) ==
    IF o.dry_run THEN "report"
    ELSE IF n = 0 THEN "empty"
    ELSE IF PromptOf(o.op) # None THEN "prompt"
    ELSE "delete"

NoDeleteCall ==
    /\ dop = NoDoc
    /\ ditems = <<>>
    /\ dnext = 0
    /\ dtyped = None
    /\ dresult = [found |-> 0, deleted |-> 0]
    /\ dissued = {}
    /\ dstore0 = <<>>

\* a maintenance operation is called
DeleteCall ==
    /\ dpc = "idle"
    /\ \E o \in DeleteOps :
          /\ dop' = o
          /\ dpc' = IF Refused(o) \/ NoFilter(o) THEN "done" ELSE "scan"
    /\ dstore0' = store
    /\ UNCHANGED <<ditems, dnext, dtyped, dresult, dissued, dorder>>
    /\ UNCHANGED <<parseVars, store, ingestVars, createVars, normVars, laterVars>>

\* the scan or query, the preview, and the dry-run and empty returns
DeleteScan ==
    /\ dpc = "scan"
    /\ LET items == ToDelete(ScanOrder(Scanned(store, dop)), dop)
           gate  == DeleteGate(dop, Len(items))
       IN  /\ ditems' = items
           /\ dresult' = [found |-> Len(items), deleted |-> 0]
           /\ dpc' = IF gate \in {"report", "empty"} THEN "done" ELSE gate
    /\ dnext' = 1
    /\ UNCHANGED <<dop, dtyped, dissued, dstore0, dorder>>
    /\ UNCHANGED <<parseVars, store, ingestVars, createVars, normVars, laterVars>>

\* what a caller may type at the prompt
TypedInputs == { StrDELETE, <<" ">> \o StrDELETE \o <<" ">>,
                 <<"d", "e", "l", "e", "t", "e">>, <<>>, StrDELETE \o <<" ", "A", "L", "L">> }

\* input("> ").strip() and its comparison with the phrase
DeletePrompt ==
    /\ dpc = "prompt"
    /\ \E t \in TypedInputs :
          /\ dtyped' = StrStrip(t)
          /\ dpc' = IF StrStrip(t) # PromptOf(dop.op) THEN "done" ELSE "delete"
    /\ UNCHANGED <<dop, ditems, dnext, dresult, dissued, dstore0, dorder>>
    /\ UNCHANGED <<parseVars, store, ingestVars, createVars, normVars, laterVars>>

\* one batch of the deletion loop: up to batch_size delete_item requests under
\* one batch writer
DeleteBatch ==
    /\ dpc = "delete"
    /\ LET last  == IF dnext + BatchSize - 1 < Len(ditems)
                       THEN dnext + BatchSize - 1 ELSE Len(ditems)
           keys  == { ItemKey(ditems[i]) : i \in dnext..last }
       IN  /\ store' = [k \in DOMAIN store \ keys |-> store[k]]
           /\ dissued' = dissued \cup keys
           /\ dresult' = [dresult EXCEPT !.deleted = @ + (last - dnext + 1)]
           /\ dnext' = last + 1
           /\ dpc' = IF last >= Len(ditems) THEN "done" ELSE "delete"
    /\ UNCHANGED <<dop, ditems, dtyped, dstore0, dorder>>
    /\ UNCHANGED <<parseVars, ingestVars, createVars, normVars, laterVars>>

\* the call returns
DeleteReturn ==
    /\ dpc = "done"
    /\ dpc' = "idle"
    /\ dop' = NoDoc
    /\ ditems' = <<>>
    /\ dnext' = 0
    /\ dtyped' = None
    /\ dresult' = [found |-> 0, deleted |-> 0]
    /\ dissued' = {}
    /\ dstore0' = <<>>
    /\ UNCHANGED dorder
    /\ UNCHANGED <<parseVars, store, ingestVars, createVars, normVars, laterVars>>

----------------------------------------------------------------------------
(* normalize_string, applied to a pair of strings                          *)

MaxNormLen == 2

StrNidecCorpDot  == <<"N", "i", "d", "e", "c", " ", "C", "o", "r", "p", ".">>
StrNidecCorpDash == <<"N", "I", "D", "E", "C", "-", "C", "O", "R", "P">>
StrNidecCorpLow  == <<"n", "i", "d", "e", "c", " ", "c", "o", "r", "p">>

\* the strings normalize_string is given: every string of up to MaxNormLen
\* characters over a letter in both cases, a digit, a blank and a hyphen; the
\* three spellings of one manufacturer; strings with characters outside ASCII;
\* and None
NormInputs ==
    SeqsUpTo({"A", "a", "1", " ", "-"}, MaxNormLen)
    \cup {StrNidecCorpDot, StrNidecCorpDash, StrNidecCorpLow}
    \cup {<<"U+212A">>, <<"U+0130", "a">>, <<"U+00E9", "1">>}
    \cup {None}

\* normalize_string is called on the two strings
Normalize ==
    /\ npc = "args"
    /\ npc' = "done"
    /\ nr_a' = NormalizeString(ns_a)
    /\ nr_b' = NormalizeString(ns_b)
    /\ UNCHANGED <<ns_a, ns_b>>
    /\ UNCHANGED <<parseVars, store, ingestVars, createVars, deleteVars, laterVars>>

----------------------------------------------------------------------------
(* Idle values of the parts a specification does not exercise              *)

IngestIdle ==
    /\ ipc = "idle"
    /\ run = 0
    /\ NoCall
    /\ assigned = {}
    /\ last_lookup = NoItem

DeleteIdle ==
    /\ dpc = "idle"
    /\ NoDeleteCall
    /\ dorder = <<>>

NormIdle ==
    /\ npc = "idle"
    /\ ns_a = <<>> /\ ns_b = <<>>
    /\ nr_a = <<>> /\ nr_b = <<>>

ReconcileIdle ==
    /\ rpc = "idle"
    /\ response = NoDoc
    /\ rtype = <<>>
    /\ raw_objs = <<>>
    /\ vidx = 0
    /\ validated_models = <<>>
    /\ rkept = <<>>
    /\ rerr = "none"
    /\ rresult = <<>>

BulkIdle ==
    /\ bpc = "idle"
    /\ all_datasheets = <<>>
    /\ bidx = 0
    /\ success_count = 0
    /\ skip_count = 0
    /\ fail_count = 0
    /\ blog = <<>>
    /\ bresults = <<>>

RetryIdle ==
    /\ gpc = "idle"
    /\ attempt_number = 0
    /\ goutcomes = <<>>
    /\ gdoc = "none"

RerunIdle ==
    /\ xrun = 0
    /\ xstore0 = <<>>

LambdaIdle ==
    /\ lpc = "idle"
    /\ levent = NoDoc
    /\ lret = NoDoc
    /\ lcalls = 0

MigrateIdle ==
    /\ mpc = "idle"
    /\ mdry = FALSE
    /\ items_to_migrate = <<>>
    /\ midx = 0
    /\ mcounts = [success |-> 0, error |-> 0]

LastIdle == RetryIdle /\ RerunIdle /\ LambdaIdle /\ MigrateIdle

LaterIdle == ReconcileIdle /\ BulkIdle /\ LastIdle

OtherIdle == DeleteIdle /\ NormIdle /\ LaterIdle

CreateIdle ==
    /\ wpc = <<>>
    /\ wrec = <<>>
    /\ wapi = <<>>
    /\ wres = <<>>
    /\ wprior = <<>>
    /\ wafter = <<>>
    /\ store0 = <<>>

----------------------------------------------------------------------------
(* Specification of the parse: one response text per behaviour             *)

InitParse ==
    /\ \/ /\ src_objs \in SeqsUpTo(ObjTexts, MaxObjs)
          /\ src_cut \in 0..Len(ArrayText(src_objs))
          /\ raw_text = StrStrip(SubSeq(ArrayText(src_objs), 1, src_cut))
       \/ /\ src_objs = <<>>
          /\ src_cut = NotCut
          /\ raw_text \in { StrStrip(t) : t \in OtherTexts }
    /\ InitParseState
    /\ store = <<>>
    /\ IngestIdle
    /\ CreateIdle
    /\ OtherIdle

NextParse == Primary \/ ScanChar \/ ScanEnd

SpecParse == InitParse /\ [][NextParse]_vars

----------------------------------------------------------------------------
(* Properties of the parse                                                 *)

ParseOver == ppc \in {"parsed", "failed"}

\* the input is the whole text of the array of src_objs
WholeArray == src_cut = Len(ArrayText(src_objs))

\* the value of one object text
ObjValue(t) == JsonLoads(t).v

FirstObjects(n) == [i \in 1..n |-> ObjValue(src_objs[i])]

\* the length of the array text up to and including the closing brace of object n
PrefixLen(n) == Len(ArrayText(SubSeq(src_objs, 1, n))) - 1

\* the text was cut inside object n: after its opening brace, before its closing one
CutInObject(n) ==
    /\ n \in 2..Len(src_objs)
    /\ src_cut >= PrefixLen(n - 1) + 2
    /\ src_cut < PrefixLen(n)

\* C9: for a raw text that is a well-formed JSON array of N objects, the parse
\* ends with exactly those N objects, in order: none lost, none duplicated.
C9_WellFormedArrayYieldsAll ==
    (ParseOver /\ WholeArray) =>
        /\ ppc = "parsed"
        /\ parsed_json = FirstObjects(Len(src_objs))

C9_Witness ==
    /\ ParseOver /\ WholeArray
    /\ Len(src_objs) = 3
    /\ src_objs[1] = src_objs[3]
    /\ Len(parsed_json) = 3

\* C4: for an array text cut in the middle of object N+1 (N >= 1), the parse
\* returns exactly objects 1..N, in order, and no partially closed object.
C4_TruncatedYieldsClosedObjects ==
    \A n \in 1..MaxObjs :
        (ParseOver /\ CutInObject(n + 1)) =>
            /\ ppc = "parsed"
            /\ parsed_json = FirstObjects(n)

PrimaryFailed ==
    LET r == JsonLoads(raw_text) IN ~r.ok \/ r.v.t \notin {"arr", "obj"}

\* C10 as stated: whenever the primary strategy fails (invalid JSON, or valid
\* JSON that is neither an array nor an object) the fallback is attempted
\* before the parse gives up.
C10_FallbackWheneverPrimaryFails ==
    (ParseOver /\ PrimaryFailed) => fallback_tried

\* C10 amended: whenever the text is not valid JSON the fallback is attempted,
\* and scans all of the content after the first "[", whether or not the
\* truncation warning was logged; valid JSON that is neither an array nor an
\* object fails at once, without the fallback.
C10_FallbackOnDecodeError ==
    ParseOver =>
        LET r == JsonLoads(raw_text) IN
        /\ ~r.ok => /\ fallback_tried
                    /\ FindFrom(raw_text, "[", 1) # 0 => pos = Len(content)
                    /\ FindFrom(raw_text, "[", 1) = 0 => perr = "no_array"
        /\ (r.ok /\ r.v.t \notin {"arr", "obj"}) =>
                    /\ ~fallback_tried
                    /\ ppc = "failed"
                    /\ perr = "neither_list_nor_dict"

\* invalid JSON ending with "]" (no warning), recovered by the fallback
C10_Witness ==
    /\ ParseOver
    /\ ~JsonLoads(raw_text).ok
    /\ raw_text # <<>>
    /\ ~trunc_warning
    /\ fallback_tried
    /\ ppc = "parsed"
    /\ pos = Len(content)

----------------------------------------------------------------------------
(* Properties of the ingestion                                             *)

\* C1: a record whose derived key already held an item when the existence
\* check looked it up is discarded before any write for it is issued: no put
\* for it is handed to the batch writer.
C1_SecondDiscardedBeforeWrite ==
    \A e \in put_log : ~e.existed

\* C5: a record for which no key can be derived is never written to the store.
C5_KeylessNeverWritten ==
    \A e \in put_log : e.keyed

\* C6: once an item is in the table, no step of a later call of the ingestion
\* path changes or replaces it.
C6_PersistedNeverChanged ==
    [][\A k \in DOMAIN store : k \in DOMAIN store' /\ store'[k] = store[k]]_vars

SamePair(a, b) ==
    /\ a.norm_manufacturer = b.norm_manufacturer
    /\ a.norm_part_number = b.norm_part_number

\* C7 as stated: any two records whose normalized (manufacturer, part number)
\* pairs are equal are assigned the same id, in any run.
C7_SamePairSameId ==
    \A a, b \in assigned : SamePair(a, b) => a.product_id = b.product_id

\* C7 amended: any two records whose normalized (manufacturer, part number)
\* pairs are equal and have a non-empty part number are assigned the same id,
\* in any run; and that id is the uuid5 of "manufacturer:partnumber".
C7_SameKeyedPairSameId ==
    \A a, b \in assigned :
        (SamePair(a, b) /\ a.norm_part_number # <<>>) =>
            /\ a.product_id = b.product_id
            /\ a.product_id = Uuid5(PRODUCT_NAMESPACE,
                                    a.norm_manufacturer \o <<":">> \o a.norm_part_number)

\* "ACME"/"A1" and "acme"/"a-1" were both given the id of "acme:a1"
C7_Witness ==
    \E a, b \in assigned :
        /\ a.manufacturer = StrACME /\ a.part_number = StrA1
        /\ b.manufacturer = StrAcme /\ b.part_number = StrA1Dash
        /\ a.product_id = b.product_id
        /\ a.product_id.name = <<"a", "c", "m", "e", ":", "a", "1">>

\* C8: a record that was persisted is found by a later lookup of its id, by
\* the existence check of the ingestion path as by read(X, T) for its type T.
C8_PersistedFoundByLookup ==
    /\ \A c \in checks : c.existed => c.found
    /\ last_lookup # NoItem => last_lookup.found

\* C11: after a batch write the reported success count and failure count are
\* both non-negative and sum to the number of records given to the write.
C11_CountsSumToRecords ==
    (ipc = "return" /\ put_log # {}) =>
        /\ counts.success >= 0
        /\ counts.failure >= 0
        /\ counts.success + counts.failure = Len(models)

\* the records of the call in progress that the loop has been through
Looped == IF ipc \in {"loop", "return"} THEN 1..(idx - 1) ELSE {}

\* C14: the key is manufacturer:partnumber whenever the normalized manufacturer
\* (the record's, or failing that the caller's) and the normalized part number
\* are both non-empty, even if there is a product name; it is
\* manufacturer:productname only when that fails and normalized manufacturer and
\* product name are both non-empty; in every other case no key is derived and
\* the record keeps its random id.
C14_KeyPriority ==
    \A i \in Looped :
        LET m  == models[i]
            nm == NormManufacturer(m, doc.manufacturer)
            np == NormalizeString(m.part_number)
            nn == NormalizeString(m.product_name)
        IN  IF nm # <<>> /\ np # <<>>
                THEN m.product_id = Uuid5(PRODUCT_NAMESPACE, nm \o <<":">> \o np)
            ELSE IF nm # <<>> /\ nn # <<>>
                THEN m.product_id = Uuid5(PRODUCT_NAMESPACE, nm \o <<":">> \o nn)
            ELSE m.product_id.kind = "uuid4"

\* one call keyed a record that has a name by its part number, and another
\* record, without part number, by its name
C14_Witness ==
    /\ ipc = "loop" /\ idx = 3
    /\ models[1].product_name = StrX /\ models[1].part_number = StrA1Dash
    /\ models[1].product_id.name = <<"a", "c", "m", "e", ":", "a", "1">>
    /\ models[2].part_number = None
    /\ models[2].product_id.name = <<"a", "c", "m", "e", ":", "x">>

----------------------------------------------------------------------------
(* Properties of create()                                                  *)

AllDone == \A w \in Workers : wpc[w] = "done"

\* create(): DynamoDBClient.create, or create_item with overwrite left False
CallsCreate(w) == wapi[w] \in {"client", "handler"}

\* C2: two workers that concurrently create records with the same id, on a
\* key that held no item, see exactly one create() succeed.
C2_ExactlyOneCreateSucceeds ==
    (/\ AllDone
     /\ \A w \in Workers : CallsCreate(w)
     /\ \A v, w \in Workers : KeyOf(wrec[v]) = KeyOf(wrec[w])
     /\ \A w \in Workers : KeyOf(wrec[w]) \notin DOMAIN store0)
        => Cardinality({ w \in Workers : wres[w] = "ok" }) = 1

\* C3: create() for an id at which an item exists does not report success and
\* leaves the item as it was.
C3_CreateOnExistingFailsAndKeeps ==
    \A w \in Workers :
        (wpc[w] = "done" /\ CallsCreate(w) /\ wprior[w] # NoItem) =>
            /\ wres[w] # "ok"
            /\ wafter[w] = wprior[w]

----------------------------------------------------------------------------
(* Specification of the ingestion: calls of process_datasheet, one after   *)
(* the other, on an empty table, and reads by other clients                *)

InitIngest ==
    /\ ParseIdle
    /\ store = <<>>
    /\ IngestIdle
    /\ CreateIdle
    /\ OtherIdle

NextIngest == StartRun \/ LoopStep \/ SaveToDb \/ Return \/ Lookup

SpecIngest == InitIngest /\ [][NextIngest]_vars

----------------------------------------------------------------------------
(* Specification of create(): two workers, each creating one record, on a  *)
(* table that is empty or holds one item                                   *)

InitCreate ==
    /\ ParseIdle
    /\ IngestIdle
    /\ OtherIdle
    /\ store0 \in {<<>>} \cup { Put(<<>>, SerializeItem(m)) : m \in CreateRecs }
    /\ store = store0
    /\ wrec \in [Workers -> CreateRecs]
    /\ wapi \in [Workers -> Apis]
    /\ wpc = [w \in Workers |-> "start"]
    /\ wres = [w \in Workers |-> "none"]
    /\ wprior = [w \in Workers |-> NoItem]
    /\ wafter = [w \in Workers |-> NoItem]

NextCreate == \E w \in Workers : CreateBegin(w) \/ CreatePut(w)

SpecCreate == InitCreate /\ [][NextCreate]_vars

----------------------------------------------------------------------------
(* Specification of the maintenance operations: calls one after the other  *)
(* on a table that holds any of the stored items                           *)

InitDelete ==
    /\ ParseIdle
    /\ IngestIdle
    /\ CreateIdle
    /\ dpc = "idle"
    /\ NoDeleteCall
    /\ NormIdle
    /\ LaterIdle
    /\ \E S \in SUBSET StoredItems :
          /\ store = TableOf(S)
          /\ dorder \in Orderings(S)

NextDelete == DeleteCall \/ DeleteScan \/ DeletePrompt \/ DeleteBatch \/ DeleteReturn

SpecDelete == InitDelete /\ [][NextDelete]_vars

----------------------------------------------------------------------------
(* Properties of the maintenance operations                                *)

DeleteCalled == dop # NoDoc

\* the caller was asked for the operation's phrase and typed it
PhraseTyped == PromptOf(dop.op) # None /\ dtyped = PromptOf(dop.op)

NothingDeleted == dissued = {} /\ store = dstore0

\* C12: in live mode a destructive operation issues no delete and leaves the
\* table unchanged as long as the caller has not typed the operation's
\* confirmation phrase.
C12_NoDeleteWithoutPhrase ==
    (DeleteCalled /\ ~dop.dry_run /\ ~PhraseTyped) => NothingDeleted

\* C13: a destructive operation called with dry_run true issues no delete,
\* leaves the table unchanged and reports zero deletions, whatever confirm is.
C13_DryRunDeletesNothing ==
    (DeleteCalled /\ dop.dry_run) =>
        /\ NothingDeleted
        /\ dpc \notin {"prompt", "delete"}
        /\ dresult.deleted = 0

\* a dry run with confirm set that found items it would have deleted
C13_Witness ==
    /\ DeleteCalled /\ dop.dry_run /\ dop.confirm
    /\ dpc = "done"
    /\ dresult.found > 0
    /\ store # <<>>
    /\ NothingDeleted

----------------------------------------------------------------------------
(* Specification of normalize_string: one pair of strings per behaviour    *)

InitNormalize ==
    /\ ParseIdle
    /\ store = <<>>
    /\ IngestIdle
    /\ CreateIdle
    /\ DeleteIdle
    /\ LaterIdle
    /\ npc = "args"
    /\ ns_a \in NormInputs
    /\ ns_b \in NormInputs
    /\ nr_a = <<>>
    /\ nr_b = <<>>

NextNormalize == Normalize

SpecNormalize == InitNormalize /\ [][NextNormalize]_vars

----------------------------------------------------------------------------
(* Properties of normalize_string                                          *)

AsciiLetters == Range(UpperLetters) \cup Range(LowerLetters)

IsAsciiAlnum(c) == c \in AsciiLetters \cup Digits

\* what is left of a string when letter case, whitespace and every character
\* that is not an ASCII letter or digit are disregarded
Skeleton(s) ==
    IF s = None THEN <<>>
    ELSE LET kept == SelectSeq(s, IsAsciiAlnum)
         IN  [i \in DOMAIN kept |-> LowerChar(kept[i])]

\* the two strings differ only in letter case, in whitespace or in characters
\* that are not ASCII letters or digits
DifferOnlyInDisregarded == Skeleton(ns_a) = Skeleton(ns_b)

\* the characters outside ASCII whose lower-case form holds an ASCII letter
CaseMapsIntoAscii == {"U+0130", "U+212A"}

HasNone(s, cs) == s = None \/ \A i \in DOMAIN s : s[i] \notin cs

\* C15 as stated: two strings that differ only in letter case, in surrounding
\* whitespace or in characters that are not ASCII letters or digits normalize
\* to the same result.
C15_SameSkeletonSameNormal ==
    (npc = "done" /\ ns_a # None /\ ns_b # None /\ DifferOnlyInDisregarded) =>
        nr_a = nr_b

\* C15 amended: the same, for strings free of the two characters outside ASCII
\* whose lower-case form holds an ASCII letter (U+0130, U+212A); and the result
\* is the skeleton itself.
C15_SameSkeletonSameNormalAscii ==
    (/\ npc = "done"
     /\ DifferOnlyInDisregarded
     /\ HasNone(ns_a, CaseMapsIntoAscii)
     /\ HasNone(ns_b, CaseMapsIntoAscii)) =>
        /\ nr_a = nr_b
        /\ nr_a = Skeleton(ns_a)

\* "Nidec Corp." and "NIDEC-CORP" both gave "nideccorp"
C15_Witness ==
    /\ npc = "done"
    /\ ns_a = StrNidecCorpDot
    /\ ns_b = StrNidecCorpDash
    /\ nr_a = <<"n", "i", "d", "e", "c", "c", "o", "r", "p">>
    /\ nr_b = nr_a


----------------------------------------------------------------------------
(* parse_gemini_response: entry, removal of product_id, validation         *)
(*                                                                         *)
(* The function takes the response and the caller's product_type.  A       *)
(* response that carries a non-empty response.parsed is returned as it is; *)
(* otherwise response.text goes through the two strategies above, every    *)
(* dict of the list loses its "product_id" key, and each item is validated *)
(* against SCHEMA_CHOICES[product_type].                                   *)

MaxItems == 2

KeyProductId ==
    <<"p", "r", "o", "d", "u", "c", "t", "_", "i", "d">>
KeyProductType ==
    <<"p", "r", "o", "d", "u", "c", "t", "_", "t", "y", "p", "e">>
KeyManufacturer ==
    <<"m", "a", "n", "u", "f", "a", "c", "t", "u", "r", "e", "r">>
KeyPartNumber ==
    <<"p", "a", "r", "t", "_", "n", "u", "m", "b", "e", "r">>
StrMotor ==
    <<"m", "o", "t", "o", "r">>
StrUniversalRobots ==
    <<"U", "n", "i", "v", "e", "r", "s", "a", "l", " ", "R", "o", "b", "o",
    "t", "s">>

\* {"manufacturer":"ACME"}
ObjPlain ==
    <<"{", "\"", "m", "a", "n", "u", "f", "a", "c", "t", "u", "r", "e", "r",
    "\"", ":", "\"", "A", "C", "M", "E", "\"", "}">>
\* {"product_type":"motor","manufacturer":"ACME"}
ObjTyped ==
    <<"{", "\"", "p", "r", "o", "d", "u", "c", "t", "_", "t", "y", "p", "e",
    "\"", ":", "\"", "m", "o", "t", "o", "r", "\"", ",", "\"", "m", "a", "n",
    "u", "f", "a", "c", "t", "u", "r", "e", "r", "\"", ":", "\"", "A", "C",
    "M", "E", "\"", "}">>
\* {"product_type":"gearhead","manufacturer":"ACME"}
ObjOwnType ==
    <<"{", "\"", "p", "r", "o", "d", "u", "c", "t", "_", "t", "y", "p", "e",
    "\"", ":", "\"", "g", "e", "a", "r", "h", "e", "a", "d", "\"", ",", "\"",
    "m", "a", "n", "u", "f", "a", "c", "t", "u", "r", "e", "r", "\"", ":",
    "\"", "A", "C", "M", "E", "\"", "}">>
\* {"product_id":"7","manufacturer":"ACME"}
ObjWithId ==
    <<"{", "\"", "p", "r", "o", "d", "u", "c", "t", "_", "i", "d", "\"", ":",
    "\"", "7", "\"", ",", "\"", "m", "a", "n", "u", "f", "a", "c", "t", "u",
    "r", "e", "r", "\"", ":", "\"", "A", "C", "M", "E", "\"", "}">>
\* {"manufacturer":1}
ObjBad ==
    <<"{", "\"", "m", "a", "n", "u", "f", "a", "c", "t", "u", "r", "e", "r",
    "\"", ":", "1", "}">>
\* "x"
ElemString ==
    <<"\"", "x", "\"">>
\* 1
ElemNumber ==
    <<"1">>

\* the elements a response's array is built from
Elements == {ObjPlain, ObjTyped, ObjOwnType, ObjWithId, ObjBad, ElemString, ElemNumber}

\* the texts of responses: arrays of up to MaxItems elements, whole, without
\* the closing bracket, or cut inside the last element; and texts that are
\* no array
ReconcileTexts ==
    { ArrayText(es) : es \in SeqsUpTo(Elements, MaxItems) }
    \cup { SubSeq(ArrayText(es), 1, Len(ArrayText(es)) - 1) :
             es \in SeqsUpTo(Elements, MaxItems) }
    \cup { SubSeq(ArrayText(es), 1, Len(ArrayText(es)) - 2) :
             es \in SeqsUpTo(Elements, MaxItems) \ {<<>>} }
    \cup { <<" ", "x", " ">>, <<"7">>, ObjTyped }

\* what the SDK may hand over as response.parsed: objects it built from the
\* model's output
PreParsedItems == { JsonLoads(t).v : t \in {ObjPlain, ObjTyped, ObjWithId} }

Responses ==
    { [parsed |-> <<>>, has_text |-> TRUE, text |-> t] : t \in ReconcileTexts }
    \cup { [parsed |-> ps, has_text |-> TRUE, text |-> None] :
             ps \in SeqsUpTo(PreParsedItems, MaxItems) \ {<<>>} }
    \cup { [parsed |-> <<>>, has_text |-> FALSE, text |-> None],
           [parsed |-> <<>>, has_text |-> TRUE, text |-> None] }

\* "needle in haystack" for two strings
Contains(hay, needle) ==
    \E i \in 1..(Len(hay) - Len(needle) + 1) :
        SubSeq(hay, i, i + Len(needle) - 1) = needle

\* whether "if "product_id" in obj: obj.pop("product_id")" raises for the
\* element v: "in" raises TypeError for a number, a bool or None; a str or a
\* list that holds "product_id" has no pop(key)
StripRaises(v) ==
    \/ v.t \in {"num", "lit"}
    \/ v.t = "str" /\ Contains(v.chars, KeyProductId)
    \/ v.t = "arr" /\ \E i \in DOMAIN v.a :
                          v.a[i] = [t |-> "str", chars |-> KeyProductId]

\* obj.pop("product_id") of a dict that has the key
StripId(v) ==
    IF v.t = "obj" /\ KeyProductId \in DOMAIN v.m
        THEN [t |-> "obj", m |-> [k \in DOMAIN v.m \ {KeyProductId} |-> v.m[k]]]
        ELSE v

\* the index of the first element the loop raises on, or 0
FirstRaising(objs) ==
    IF \E i \in DOMAIN objs : StripRaises(objs[i])
        THEN CHOOSE i \in DOMAIN objs :
                 StripRaises(objs[i]) /\ \A j \in 1..(i - 1) : ~StripRaises(objs[j])
        ELSE 0

\* model_fields["manufacturer"].default
ManufacturerDefault == [Gearhead |-> Undefined, RobotArm |-> StrUniversalRobots]

\* a field declared "str": the value given must be a string; without a value
\* the default is taken, and a field without default is missing
StrField(m, key, default) ==
    IF key \in DOMAIN m
        THEN IF m[key].t = "str" THEN [ok |-> TRUE, v |-> m[key].chars] ELSE Fail
    ELSE IF default = Undefined THEN Fail
    ELSE [ok |-> TRUE, v |-> default]

\* a field declared "Optional[str] = None"
OptStrField(m, key) ==
    IF key \notin DOMAIN m THEN [ok |-> TRUE, v |-> None]
    ELSE IF m[key].t = "str" THEN [ok |-> TRUE, v |-> m[key].chars]
    ELSE IF m[key] = [t |-> "lit", name |-> <<"n", "u", "l", "l">>]
        THEN [ok |-> TRUE, v |-> None]
    ELSE Fail

\* the texts a UUID field accepts: 32 hexadecimal digits, hyphens apart
IsUuidText(chars) ==
    LET hex == SelectSeq(chars, LAMBDA c : c # "-")
    IN  Len(hex) = 32 /\ \A i \in DOMAIN hex : hex[i] \in HexDigits

\* product_id: UUID = Field(default_factory=uuid4); n names the fresh value
IdField(m, n) ==
    IF KeyProductId \notin DOMAIN m THEN [ok |-> TRUE, v |-> Uuid4(n)]
    ELSE IF m[KeyProductId].t = "str" /\ IsUuidText(m[KeyProductId].chars)
        THEN [ok |-> TRUE, v |-> [kind |-> "supplied", chars |-> m[KeyProductId].chars]]
    ELSE Fail

\* model_class.model_validate(item): the fields of ProductBase that the
\* pipeline reads; keys that are no field are ignored.  [ok |-> FALSE] stands
\* for ValidationError.
ModelValidate(model_class, item, n) ==
    IF item.t # "obj" THEN Fail
    ELSE LET id  == IdField(item.m, n)
             ty  == StrField(item.m, KeyProductType, ClassDefault[model_class])
             man == StrField(item.m, KeyManufacturer, ManufacturerDefault[model_class])
             pn  == OptStrField(item.m, KeyPartNumber)
         IN  IF id.ok /\ ty.ok /\ man.ok /\ pn.ok
                 THEN [ok |-> TRUE,
                       model |-> [product_id |-> id.v, product_type |-> ty.v,
                                  manufacturer |-> man.v, part_number |-> pn.v]]
                 ELSE Fail

\* one iteration with every validation failure leaving the function
ValidateOutcome_FailFast(model_class, item, n) ==
    IF ModelValidate(model_class, item, n).ok THEN "append" ELSE "raise"

\* one iteration of the validation loop: the model is appended, or the except
\* clause logs item.get('product_name', ...) and continues; an item without
\* get() (a str, a list) makes the except clause itself raise AttributeError
ValidateOutcome(model_class, item, n) ==
    IF ModelValidate(model_class, item, n).ok THEN "append"
    ELSE IF item.t = "obj" THEN "continue"
    ELSE "raise"

\* the end of the function without the test for an empty list
EndOfValidation_AllowEmpty(validated) ==
    "return"

\* "if not validated_models: raise ValueError(...)", else return
EndOfValidation(validated) ==
    IF validated = <<>> THEN "raise" ELSE "return"

\* lines 547-559: the pre-parsed response is returned; a response without
\* text raises; otherwise the text is stripped and the strategies start
Entry ==
    /\ rpc = "entry"
    /\ IF response.parsed # <<>> THEN
           /\ rpc' = "returned"
           /\ rresult' = response.parsed
           /\ UNCHANGED <<rerr, raw_text, ppc>>
       ELSE IF ~response.has_text THEN
           /\ rpc' = "raised"
           /\ rerr' = "no_text"
           /\ UNCHANGED <<rresult, raw_text, ppc>>
       ELSE IF response.text = None THEN
           /\ rpc' = "raised"
           /\ rerr' = "attribute_error"
           /\ UNCHANGED <<rresult, raw_text, ppc>>
       ELSE
           /\ rpc' = "text"
           /\ raw_text' = StrStrip(response.text)
           /\ ppc' = "primary"
           /\ UNCHANGED <<rresult, rerr>>
    /\ UNCHANGED <<content, pos, current_obj, brace_depth, in_string, escape_next,
                   parsed_json, perr, fallback_tried, trunc_warning, src_objs, src_cut>>
    /\ UNCHANGED <<response, rtype, raw_objs, vidx, validated_models, rkept>>
    /\ UNCHANGED <<store, ingestVars, createVars, deleteVars, normVars, bulkVars, lastVars>>

\* lines 680-686: the loop that pops "product_id"
Strip ==
    /\ rpc = "text"
    /\ ppc = "parsed"
    /\ raw_objs' = parsed_json
    /\ LET stop == FirstRaising(parsed_json) IN
       IF stop = 0 THEN
           /\ parsed_json' = [i \in DOMAIN parsed_json |-> StripId(parsed_json[i])]
           /\ rpc' = "validate"
           /\ vidx' = 1
           /\ UNCHANGED rerr
       ELSE
           /\ parsed_json' = [i \in DOMAIN parsed_json |->
                                 IF i < stop THEN StripId(parsed_json[i])
                                             ELSE parsed_json[i]]
           /\ rpc' = "raised"
           /\ rerr' = "type_error"
           /\ UNCHANGED vidx
    /\ UNCHANGED <<raw_text, ppc, content, pos, current_obj, brace_depth, in_string,
                   escape_next, perr, fallback_tried, trunc_warning, src_objs, src_cut>>
    /\ UNCHANGED <<response, rtype, validated_models, rkept, rresult>>
    /\ UNCHANGED <<store, ingestVars, createVars, deleteVars, normVars, bulkVars, lastVars>>

\* lines 691-700: one iteration of "for i, item in enumerate(parsed_json)"
ValidateItem ==
    /\ rpc = "validate"
    /\ vidx <= Len(parsed_json)
    /\ LET model_class == SchemaChoices[rtype]
           item == parsed_json[vidx]
           out  == ValidateOutcome(model_class, item, vidx)
       IN  IF out = "append" THEN
               /\ validated_models' =
                      Append(validated_models, ModelValidate(model_class, item, vidx).model)
               /\ rkept' = Append(rkept, vidx)
               /\ vidx' = vidx + 1
               /\ UNCHANGED <<rpc, rerr>>
           ELSE IF out = "continue" THEN
               /\ vidx' = vidx + 1
               /\ UNCHANGED <<validated_models, rkept, rpc, rerr>>
           ELSE
               /\ rpc' = "raised"
               /\ rerr' = "attribute_error"
               /\ UNCHANGED <<validated_models, rkept, vidx>>
    /\ UNCHANGED <<parseVars, response, rtype, raw_objs, rresult>>
    /\ UNCHANGED <<store, ingestVars, createVars, deleteVars, normVars, bulkVars, lastVars>>

\* lines 702-709
ValidateEnd ==
    /\ rpc = "validate"
    /\ vidx > Len(parsed_json)
    /\ IF EndOfValidation(validated_models) = "raise"
          THEN rpc' = "raised" /\ rerr' = "no_valid_objects" /\ UNCHANGED rresult
          ELSE rpc' = "returned" /\ rresult' = validated_models /\ UNCHANGED rerr
    /\ UNCHANGED <<parseVars, response, rtype, raw_objs, vidx, validated_models, rkept>>
    /\ UNCHANGED <<store, ingestVars, createVars, deleteVars, normVars, bulkVars, lastVars>>

----------------------------------------------------------------------------
(* Specification of parse_gemini_response as a whole: one response and one *)
(* product_type per behaviour                                              *)

InitReconcile ==
    /\ ParseIdle
    /\ store = <<>>
    /\ IngestIdle
    /\ CreateIdle
    /\ DeleteIdle
    /\ NormIdle
    /\ BulkIdle
    /\ LastIdle
    /\ rpc = "entry"
    /\ response \in Responses
    /\ rtype \in DOMAIN SchemaChoices
    /\ raw_objs = <<>>
    /\ vidx = 0
    /\ validated_models = <<>>
    /\ rkept = <<>>
    /\ rerr = "none"
    /\ rresult = <<>>

NextReconcile ==
    Entry \/ Primary \/ ScanChar \/ ScanEnd \/ Strip \/ ValidateItem \/ ValidateEnd

SpecReconcile == InitReconcile /\ [][NextReconcile]_vars

\* the call is over: it returned, or an exception left it
Returned == rpc = "returned"
Raised   == rpc = "raised" \/ (rpc = "text" /\ ppc = "failed")


----------------------------------------------------------------------------
(* Properties of parse_gemini_response as a whole                          *)

\* whether a returned record carries a product_id that came with the model's
\* output: a pre-parsed object that has the key, or a validated model whose
\* product_id was taken from the item
CarriesSuppliedId(rec) ==
    IF "t" \in DOMAIN rec
        THEN KeyProductId \in DOMAIN rec.m
        ELSE rec.product_id.kind = "supplied"

\* C16: no record that parse_gemini_response returns carries a product_id
\* supplied by the model, whichever path the call took.
C16_NoModelSuppliedId ==
    Returned => \A i \in DOMAIN rresult : ~CarriesSuppliedId(rresult[i])


\* the call validated the items of a response text
Validated == Returned /\ response.parsed = <<>>

\* C17: every validated record has the product_type the caller passed, and
\* the partition key its item is stored under is that type's, whatever
\* "product_type" the raw object carried.
C17_TypeIsCallers ==
    Validated =>
        \A i \in DOMAIN rresult :
            /\ rresult[i].product_type = rtype
            /\ PK(rresult[i].product_type) = PK(rtype)


\* the strategies produced a list and the call is over
ReconcileOver == rpc \in {"returned", "raised"} /\ ppc = "parsed"

\* every element of the list is a JSON object
AllObjects == \A i \in DOMAIN raw_objs : raw_objs[i].t = "obj"

\* the model item i validates to, if it does
ModelOf(i) == ModelValidate(SchemaChoices[rtype], StripId(raw_objs[i]), i)

ValidIndices == { i \in DOMAIN raw_objs : ModelOf(i).ok }

NothingYielded ==
    /\ response.parsed = <<>>
    /\ \/ ppc = "failed"
       \/ ReconcileOver /\ raw_objs = <<>>

\* C19: when neither strategy yields an object (no "[" is found, no complete
\* object is recovered, or the array is empty) the call ends with an error;
\* and no call returns an empty list.
C19_NoObjectIsAnError ==
    /\ NothingYielded => Raised /\ rresult = <<>>
    /\ Returned => rresult # <<>>

C19_Witness ==
    /\ NothingYielded
    /\ fallback_tried
    /\ perr = "no_objects"
    /\ Len(raw_text) > 1
    /\ Raised


----------------------------------------------------------------------------
(* main, --scrape-all: the loop over every datasheet of the table          *)

MaxSheets == 3

\* datasheets; the list may hold the same product twice
Sheets == {"ds1", "ds2"}

\* what happens inside a call of process_datasheet
Events == {"unknown_type", "exists_error", "exists", "no_document", "parse_error",
           "error_in_try", "saved", "nothing_saved"}

\* how the call ends: one of the three return values, or "raise" for an
\* exception that leaves the function (SCHEMA_CHOICES[product_type] and
\* client.product_exists are outside its try block; everything from the
\* download on is inside "try ... except Exception: return 'failed'")
ProcessDatasheet(event) ==
    IF event \in {"unknown_type", "exists_error"} THEN "raise"
    ELSE IF event = "exists" THEN "skipped"
    ELSE IF event = "saved" THEN "success"
    ELSE "failed"

\* the loop body without the try/except: an exception leaves the loop
LoopOutcome_NoTry(result) ==
    IF result = "skipped" THEN [counter |-> "skip", continue |-> TRUE]
    ELSE IF result = "success" THEN [counter |-> "success", continue |-> TRUE]
    ELSE IF result = "raise" THEN [counter |-> "none", continue |-> FALSE]
    ELSE [counter |-> "fail", continue |-> TRUE]

\* the loop body: which counter the result increments, and whether the loop
\* goes on to the next datasheet
LoopOutcome(result) ==
    IF result = "skipped" THEN [counter |-> "skip", continue |-> TRUE]
    ELSE IF result = "success" THEN [counter |-> "success", continue |-> TRUE]
    ELSE [counter |-> "fail", continue |-> TRUE]

\* one iteration of "for ds in all_datasheets"
BulkStep ==
    /\ bpc = "loop"
    /\ bidx <= Len(all_datasheets)
    /\ \E event \in Events :
          LET result == ProcessDatasheet(event)
              out    == LoopOutcome(result) IN
          /\ blog' = Append(blog, all_datasheets[bidx])
          /\ bresults' = Append(bresults, result)
          /\ success_count' = success_count + (IF out.counter = "success" THEN 1 ELSE 0)
          /\ skip_count' = skip_count + (IF out.counter = "skip" THEN 1 ELSE 0)
          /\ fail_count' = fail_count + (IF out.counter = "fail" THEN 1 ELSE 0)
          /\ IF out.continue
                THEN bidx' = bidx + 1 /\ UNCHANGED bpc
                ELSE bpc' = "done" /\ UNCHANGED bidx
    /\ UNCHANGED all_datasheets
    /\ UNCHANGED <<parseVars, store, ingestVars, createVars, deleteVars, normVars,
                   reconcileVars, lastVars>>

\* after the loop: the summary line and sys.exit(0)
BulkEnd ==
    /\ bpc = "loop"
    /\ bidx > Len(all_datasheets)
    /\ bpc' = "done"
    /\ UNCHANGED <<all_datasheets, bidx, success_count, skip_count, fail_count,
                   blog, bresults>>
    /\ UNCHANGED <<parseVars, store, ingestVars, createVars, deleteVars, normVars,
                   reconcileVars, lastVars>>

InitBulk ==
    /\ ParseIdle
    /\ store = <<>>
    /\ IngestIdle
    /\ CreateIdle
    /\ DeleteIdle
    /\ NormIdle
    /\ ReconcileIdle
    /\ LastIdle
    /\ bpc = "loop"
    /\ all_datasheets \in SeqsUpTo(Sheets, MaxSheets)
    /\ bidx = 1
    /\ success_count = 0
    /\ skip_count = 0
    /\ fail_count = 0
    /\ blog = <<>>
    /\ bresults = <<>>

NextBulk == BulkStep \/ BulkEnd

SpecBulk == InitBulk /\ [][NextBulk]_vars

\* the number of calls so far that ended in one of the given ways
Ended(ways) == Cardinality({ i \in DOMAIN bresults : bresults[i] \in ways })

\* C20: the bulk run calls process_datasheet for every datasheet of the list
\* exactly once and in list order, whatever the earlier calls returned or
\* raised, and counts each call in exactly one of the three counters.
C20_EveryDatasheetOnceInOrder ==
    /\ bpc \in {"loop", "done"} =>
          /\ blog = SubSeq(all_datasheets, 1, Len(blog))
          /\ Len(blog) = bidx - 1
          /\ success_count = Ended({"success"})
          /\ skip_count = Ended({"skipped"})
          /\ fail_count = Ended({"failed", "raise"})
          /\ success_count + skip_count + fail_count = Len(blog)
    /\ bpc = "done" => blog = all_datasheets

C20_Witness ==
    /\ bpc = "done"
    /\ Len(all_datasheets) = 3
    /\ bresults = <<"raise", "failed", "success">>
    /\ blog = all_datasheets
    /\ fail_count = 2 /\ success_count = 1 /\ skip_count = 0


----------------------------------------------------------------------------
(* generate_content under @retry(stop=stop_after_attempt(5),               *)
(* wait=wait_exponential(...)), as process_datasheet calls it              *)
(*                                                                         *)
(* The decorator names no retry condition, so tenacity's default applies:  *)
(* retry on any Exception.  When the stop condition holds after a failed   *)
(* attempt, tenacity raises RetryError; process_datasheet calls            *)
(* generate_content inside "try ... except Exception: return 'failed'".    *)

StopAfterAttempt == 5

Transient == {"timeout", "rate_limit", "server_error"}
Fatal     == {"authentication", "quota", "invalid_request"}

\* how one attempt can end
AttemptOutcomes == {"ok"} \cup Transient \cup Fatal

\* retry=retry_if_exception_type(): the default, any Exception
Retries(o) == o \in Transient \cup Fatal

\* a stop condition that lets one attempt too many through
ShouldStop_OffByOne(n) == n > StopAfterAttempt

\* stop_after_attempt(5)
ShouldStop(n) == n >= StopAfterAttempt

\* what tenacity does after attempt n ended with outcome o
Decision(o, n) ==
    IF o = "ok" THEN "return"
    ELSE IF ~Retries(o) THEN "reraise"
    ELSE IF ShouldStop(n) THEN "retry_error"
    ELSE "again"

\* one attempt of generate_content and what follows it
Attempt ==
    /\ gpc = "attempt"
    /\ \E o \in AttemptOutcomes :
          LET d == Decision(o, attempt_number) IN
          /\ goutcomes' = Append(goutcomes, o)
          /\ IF d = "return" THEN
                 /\ gpc' = "returned"
                 /\ gdoc' = "parsing"
                 /\ UNCHANGED attempt_number
             ELSE IF d \in {"reraise", "retry_error"} THEN
                 /\ gpc' = "raised"
                 /\ gdoc' = "failed"
                 /\ UNCHANGED attempt_number
             ELSE
                 /\ attempt_number' = attempt_number + 1
                 /\ UNCHANGED <<gpc, gdoc>>
    /\ UNCHANGED <<priorVars, store, rerunVars, lambdaVars, migrateVars>>

InitRetry ==
    /\ ParseIdle
    /\ store = <<>>
    /\ IngestIdle
    /\ CreateIdle
    /\ DeleteIdle
    /\ NormIdle
    /\ ReconcileIdle
    /\ BulkIdle
    /\ RerunIdle
    /\ LambdaIdle
    /\ MigrateIdle
    /\ gpc = "attempt"
    /\ attempt_number = 1
    /\ goutcomes = <<>>
    /\ gdoc = "none"

NextRetry == Attempt

SpecRetry == InitRetry /\ [][NextRetry]_vars

\* C21: an attempt that ends in a non-transient failure (authentication,
\* quota, invalid request) is the last one: the failure is surfaced at once
\* and no further attempt is made.
C21_FatalNotRetried ==
    \A i \in DOMAIN goutcomes :
        goutcomes[i] \in Fatal => (i = Len(goutcomes) /\ gpc = "raised")

\* C22: the call is attempted at most StopAfterAttempt times; after that many
\* consecutive failures no further attempt is made, the failure is surfaced
\* and the document ends as failed.
C22_AtMostFiveAttempts ==
    /\ attempt_number <= StopAfterAttempt
    /\ Len(goutcomes) <= StopAfterAttempt
    /\ (Len(goutcomes) = StopAfterAttempt /\ goutcomes[StopAfterAttempt] # "ok")
           => (gpc = "raised" /\ gdoc = "failed")
    /\ gpc = "raised" => gdoc = "failed"

C22_Witness ==
    /\ gpc = "raised"
    /\ goutcomes = [i \in 1..StopAfterAttempt |-> "timeout"]
    /\ gdoc = "failed"


----------------------------------------------------------------------------
(* product_exists, as process_datasheet calls it                           *)

\* the partition of the call's type holds an item with its manufacturer and
\* product name
MatchStored(tbl, d) ==
    \E it \in Partition(tbl, PK(d.product_type)) :
        it.manufacturer = d.manufacturer /\ it.product_name = d.product_name

\* C23: the existence check at the start of a call answers true (the call is
\* skipped) if and only if the partition of that type holds at least one item
\* whose manufacturer and product name both equal the arguments.
C23_ExistsIffMatch ==
    [][ (ipc = "idle" /\ ipc' # "idle") =>
            ((outcome' = "skipped") <=> MatchStored(store, doc')) ]_vars


----------------------------------------------------------------------------
(* Properties of delete_duplicates                                         *)

ItemsOf(tbl) == { tbl[k] : k \in DOMAIN tbl }

\* the items of a table that carry the part number pn
WithPartNumber(tbl, pn) == { it \in ItemsOf(tbl) : it.part_number = pn }

\* the position of an item in the scan's order
ScanIndex(it) == CHOOSE i \in DOMAIN dorder : dorder[i] = it

\* the item of the group G that keep selects
KeptOf(G, keep) ==
    IF keep = "newest"
        THEN CHOOSE it \in G : \A o \in G : o.product_id.n <= it.product_id.n
    ELSE IF keep = "last"
        THEN CHOOSE it \in G : \A o \in G : ScanIndex(o) <= ScanIndex(it)
    ELSE CHOOSE it \in G : \A o \in G : ScanIndex(it) <= ScanIndex(o)

\* a live delete_duplicates call ran to its end
DuplicatesRunDone ==
    /\ dpc = "done"
    /\ dop # NoDoc
    /\ dop.op = "delete_duplicates"
    /\ dop.confirm /\ ~dop.dry_run

----------------------------------------------------------------------------
(* A destructive operation interrupted and run again                       *)

\* the calls that delete: confirmed, not a dry run, with a filter where one is
\* required
LiveOps == { o \in DeleteOps : o.confirm /\ ~o.dry_run /\ ~NoFilter(o) }

\* the process is stopped in the deletion loop: any of the requests for the
\* items still to delete may have reached the table
Interrupt ==
    /\ dpc = "delete"
    /\ xrun = 1
    /\ \E D \in SUBSET { ItemKey(ditems[i]) : i \in dnext..Len(ditems) } :
          store' = [k \in DOMAIN store \ D |-> store[k]]
    /\ dpc' = "stopped"
    /\ xrun' = 2
    /\ UNCHANGED <<dop, ditems, dnext, dtyped, dresult, dissued, dstore0, dorder, xstore0>>
    /\ UNCHANGED <<parseVars, ingestVars, createVars, normVars, reconcileVars, bulkVars,
                   retryVars, lambdaVars, migrateVars>>

\* the same call is made again
RerunCall ==
    /\ dpc = "stopped"
    /\ xrun = 2
    /\ dpc' = "scan"
    /\ xrun' = 3
    /\ ditems' = <<>>
    /\ dnext' = 0
    /\ dtyped' = None
    /\ dresult' = [found |-> 0, deleted |-> 0]
    /\ dissued' = {}
    /\ dstore0' = store
    /\ UNCHANGED <<dop, dorder, xstore0>>
    /\ UNCHANGED <<parseVars, store, ingestVars, createVars, normVars, reconcileVars,
                   bulkVars, retryVars, lambdaVars, migrateVars>>

\* a live call has just been made on a table
InitRerun ==
    /\ ParseIdle
    /\ IngestIdle
    /\ CreateIdle
    /\ NormIdle
    /\ ReconcileIdle
    /\ BulkIdle
    /\ RetryIdle
    /\ LambdaIdle
    /\ MigrateIdle
    /\ \E S \in SUBSET StoredItems :
          /\ store = TableOf(S)
          /\ dorder \in Orderings(S)
    /\ dop \in LiveOps
    /\ dpc = "scan"
    /\ ditems = <<>>
    /\ dnext = 0
    /\ dtyped = None
    /\ dresult = [found |-> 0, deleted |-> 0]
    /\ dissued = {}
    /\ dstore0 = store
    /\ xstore0 = store
    /\ xrun = 1

NextRerun == DeleteScan \/ DeletePrompt \/ DeleteBatch \/ Interrupt \/ RerunCall

SpecRerun == InitRerun /\ [][NextRerun]_vars

\* the table one run of the call o leaves when nothing stops it
AfterOneRun(tbl, o) ==
    LET items == ToDelete(ScanOrder(Scanned(tbl, o)), o)
        keys  == { ItemKey(items[i]) : i \in DOMAIN items }
    IN  [k \in DOMAIN tbl \ keys |-> tbl[k]]

\* the run went through its deletion loop, or found nothing to delete
RanToCompletion == dpc = "done" /\ dresult.deleted = dresult.found

\* C24: a destructive operation stopped after deleting any subset of its
\* items and then run again to completion leaves the table one uninterrupted
\* run leaves.
C24_RerunSameAsOneRun ==
    (xrun = 3 /\ RanToCompletion) => store = AfterOneRun(xstore0, dop)

C24_Witness ==
    /\ xrun = 3
    /\ RanToCompletion
    /\ dop.op = "delete_duplicates"
    /\ dresult.deleted = 1
    /\ Cardinality(DOMAIN xstore0) = Cardinality(DOMAIN store) + 2


----------------------------------------------------------------------------
(* lambda_handler                                                          *)

StrNull    == <<"n", "u", "l", "l">>
StrKey     == <<"k">>
StrBlanks  == <<" ", " ", " ">>
StrEmptyObject == <<"{", "}">>
StrEmptyArray  == <<"[", "]">>
StrNotJson == <<"n", "o", "t", " ", "j", "s", "o", "n">>
\* {"prompt":"p","url":"u"}
StrRequest == <<"{", "\"", "p", "r", "o", "m", "p", "t", "\"", ":", "\"", "p", "\"", ",",
                "\"", "u", "r", "l", "\"", ":", "\"", "u", "\"", "}">>

Absent   == [t |-> "absent"]
PyNone   == [t |-> "lit", name |-> StrNull]
HeaderDict(pairs) == [t |-> "dict", items |-> pairs]

\* the values of event['headers']: no such key, null, and dicts with no key,
\* with 'x-api-key' empty, blank, set and set with blanks around, and with the
\* key in upper case
EventHeaders ==
    { Absent, PyNone, HeaderDict({}),
      HeaderDict({<<"x-api-key", <<>>>>}),
      HeaderDict({<<"x-api-key", StrBlanks>>}),
      HeaderDict({<<"x-api-key", StrKey>>}),
      HeaderDict({<<"x-api-key", <<" ">> \o StrKey \o <<" ">>>>}),
      HeaderDict({<<"X-API-KEY", StrKey>>}) }

\* the values of event['body']: no such key, null, a dict, and strings
EventBodies ==
    { Absent, PyNone, [t |-> "obj", m |-> <<>>],
      [t |-> "str", chars |-> StrEmptyObject],
      [t |-> "str", chars |-> StrRequest],
      [t |-> "str", chars |-> StrEmptyArray],
      [t |-> "str", chars |-> StrNotJson] }

LambdaEvents == [headers : EventHeaders, body : EventBodies]

\* what analyze_document does: returns a response with text, returns an
\* object without text, raises
AnalyzeOutcomes == {"text", "no_text", "raises"}

\* event.get(key, default)
EventGet(v, default) == IF v = Absent THEN default ELSE v

\* body: json.loads(body_raw) when body_raw is a str, body_raw otherwise;
\* [ok |-> FALSE] when json.loads raises
BodyOf(e) ==
    LET body_raw == EventGet(e.body, [t |-> "str", chars |-> StrEmptyObject])
    IN  IF body_raw.t = "str" THEN JsonLoads(body_raw.chars)
        ELSE [ok |-> TRUE, v |-> body_raw]

\* headers.get("x-api-key"): None when the key is not there
ApiKeyOf(headers) ==
    IF \E p \in headers.items : p[1] = "x-api-key"
        THEN (CHOOSE p \in headers.items : p[1] = "x-api-key")[2]
        ELSE None

Status(code, type) == [statusCode |-> code, type |-> type]

\* the first try block: what the handler returns there, or "proceed"
FirstBlock(e) ==
    LET headers == EventGet(e.headers, HeaderDict({}))
        body    == BodyOf(e)
    IN  IF ~body.ok THEN Status(500, "none")                  \* json.loads raises
        ELSE IF body.v.t # "obj" THEN Status(500, "none")     \* body.get raises
        ELSE IF headers.t # "dict" THEN Status(500, "none")   \* headers.get raises
        ELSE LET api_key == ApiKeyOf(headers) IN
             IF api_key = None \/ api_key = <<>>
                 THEN Status(401, "authentication_error")
             ELSE IF StrStrip(api_key) = <<>>
                 THEN Status(401, "authentication_error")
             ELSE Status(0, "proceed")

\* the handler up to the call of analyze_document
Authenticate ==
    /\ lpc = "event"
    /\ LET r == FirstBlock(levent) IN
       IF r.type = "proceed"
           THEN /\ lpc' = "analyze"
                /\ UNCHANGED lret
           ELSE /\ lpc' = "returned"
                /\ lret' = r
    /\ UNCHANGED <<levent, lcalls>>
    /\ UNCHANGED <<priorVars, store, retryVars, rerunVars, migrateVars>>

\* the call of analyze_document and what is made of its response
Analyze ==
    /\ lpc = "analyze"
    /\ lpc' = "returned"
    /\ lcalls' = lcalls + 1
    /\ \E o \in AnalyzeOutcomes :
          lret' = IF o = "text" THEN Status(200, "none") ELSE Status(500, "none")
    /\ UNCHANGED levent
    /\ UNCHANGED <<priorVars, store, retryVars, rerunVars, migrateVars>>

InitLambda ==
    /\ ParseIdle
    /\ store = <<>>
    /\ IngestIdle
    /\ CreateIdle
    /\ DeleteIdle
    /\ NormIdle
    /\ ReconcileIdle
    /\ BulkIdle
    /\ RetryIdle
    /\ RerunIdle
    /\ MigrateIdle
    /\ lpc = "event"
    /\ levent \in LambdaEvents
    /\ lret = NoDoc
    /\ lcalls = 0

NextLambda == Authenticate \/ Analyze

SpecLambda == InitLambda /\ [][NextLambda]_vars

\* the body is a dict, is left out, or is a string json.loads accepts
ParseableBody(e) == e.body.t # "lit" /\ BodyOf(e).ok

\* the headers are missing, lack 'x-api-key', or carry an empty or blank one
NoApiKey(e) ==
    \/ e.headers.t # "dict"
    \/ ApiKeyOf(e.headers) = None
    \/ StrStrip(ApiKeyOf(e.headers)) = <<>>

\* C26: for every event with a parseable body and no usable API key the
\* handler returns 401 with type authentication_error and never calls
\* analyze_document.
C26_NoKeyIs401 ==
    (lpc = "returned" /\ ParseableBody(levent) /\ NoApiKey(levent)) =>
        (lret = Status(401, "authentication_error") /\ lcalls = 0)

\* the part that holds: a request without a usable key never reaches
\* analyze_document
C26_NoKeyNeverAnalyzed == NoApiKey(levent) => lcalls = 0


----------------------------------------------------------------------------
(* Properties of the fallback scan                                         *)

\* the scan is reading a character of a string literal: after its opening
\* quote, or right after a backslash
InsideLiteral == in_string \/ escape_next

ScannedChar == content[pos + 1]

ScanStep == ppc = "scan" /\ pos < Len(content) /\ pos' = pos + 1

\* the object texts with a brace or an escaped quote inside a string value
BracedObjs == {ObjS, ObjN}

\* object n of the array was closed before the cut
ClosedBeforeCut(n) == n \in 1..Len(src_objs) /\ src_cut >= PrefixLen(n)

\* C27: during the fallback scan a brace inside a string literal never changes
\* the brace depth and an escaped quote does not end the literal, so an object
\* whose string values contain braces or escaped quotes is recovered as one
\* whole object.
C27_BracedObjectsRecoveredWhole ==
    \A n \in 1..MaxObjs :
        (ParseOver /\ fallback_tried /\ ClosedBeforeCut(n) /\ src_objs[n] \in BracedObjs) =>
            /\ Len(parsed_json) >= n
            /\ parsed_json[n] = ObjValue(src_objs[n])

\* the first half of C27, on every step of the scan
C27_LiteralsLeaveDepthAlone ==
    [][ ScanStep =>
          /\ (in_string /\ ~escape_next /\ ScannedChar \in {"{", "}"}) =>
                 brace_depth' = brace_depth
          /\ (escape_next /\ ScannedChar = "\"") => in_string' = in_string ]_vars

\* the second half of C27 for the first object of the scan
C27_FirstRecoveredWhole ==
    (ParseOver /\ fallback_tried /\ ClosedBeforeCut(1) /\ src_objs[1] \in BracedObjs) =>
        /\ Len(parsed_json) >= 1
        /\ parsed_json[1] = ObjValue(src_objs[1])

\* C29: during the fallback scan the brace depth is never negative, whatever
\* the input text.
C29_DepthNeverNegative == brace_depth >= 0


----------------------------------------------------------------------------
(* Properties of batch_create                                              *)

\* the indices of the given records that the table holds as they were given
StoredOf(tbl, ms) ==
    { i \in DOMAIN ms :
         /\ KeyOf(ms[i]) \in DOMAIN tbl
         /\ tbl[KeyOf(ms[i])] = SerializeItem(ms[i]) }

\* C28: the success count batch_create returns never exceeds the number of
\* the given records that are in the store when it returns.
C28_CountAtMostStored ==
    ipc = "return" => counts.success <= Cardinality(StoredOf(store, models))


----------------------------------------------------------------------------
(* scripts/migrate_product_types.py                                        *)

StrVFD        == <<"V", "F", "D">>
StrServoMotor == <<"S", "e", "r", "v", "o", " ", "M", "o", "t", "o", "r">>
StrInverter   == <<"I", "n", "v", "e", "r", "t", "e", "r">>
StrDriveCap   == <<"D", "r", "i", "v", "e">>
TypeDrive     == <<"d", "r", "i", "v", "e">>
TypeMotor     == <<"m", "o", "t", "o", "r">>
StrYes        == <<"y", "e", "s">>
StrYCap       == <<"Y">>
StrNo         == <<"n", "o">>

DriveKeywords == { <<"d", "r", "i", "v", "e">>,
                   <<"v", "f", "d">>,
                   <<"i", "n", "v", "e", "r", "t", "e", "r">>,
                   <<"s", "e", "r", "v", "o", " ", "d", "r", "i", "v", "e">> }
MotorKeywords == { <<"m", "o", "t", "o", "r">>,
                   <<"s", "e", "r", "v", "o", " ", "m", "o", "t", "o", "r">>,
                   <<"i", "n", "d", "u", "c", "t", "i", "o", "n">> }

\* normalize_product_type: [ok |-> FALSE] stands for ValueError
NormalizeProductType(product_type) ==
    LET product_type_lower == StrStrip(StrLower(product_type))
    IN  IF \E k \in DriveKeywords : Contains(product_type_lower, k)
            THEN [ok |-> TRUE, v |-> TypeDrive]
        ELSE IF \E k \in MotorKeywords : Contains(product_type_lower, k)
            THEN [ok |-> TRUE, v |-> TypeMotor]
        ELSE [ok |-> FALSE]

MigItem(t, n) ==
    [PK |-> PK(t), SK |-> SK(Uuid4(n)), product_id |-> Uuid4(n), product_type |-> t]

\* the items the table may hold when the script runs: four with a descriptive
\* product type (two of them with one id, one whose key the new type leaves
\* as it is), one already migrated, one of a type the script does not know
MigrateStored ==
    { MigItem(StrVFD, 1), MigItem(StrInverter, 1), MigItem(StrServoMotor, 2),
      MigItem(StrDriveCap, 3), MigItem(TypeDrive, 4), MigItem(TypeGearhead, 5) }

\* the scan's filter: not yet 'motor' or 'drive', and a type that normalizes
Selected(tbl) ==
    { it \in { tbl[k] : k \in DOMAIN tbl } :
         /\ it.product_type \notin {TypeMotor, TypeDrive}
         /\ NormalizeProductType(it.product_type).ok }

\* an entry of items_to_migrate
InfoOf(item) ==
    LET new_product_type == NormalizeProductType(item.product_type).v
    IN  [old_pk |-> item.PK, old_sk |-> item.SK,
         old_product_type |-> item.product_type,
         new_product_type |-> new_product_type,
         new_pk |-> PK(new_product_type),
         item |-> item]

\* new_item: the copy with the new product_type and PK
NewItem(info) ==
    [info.item EXCEPT !.product_type = info.new_product_type, !.PK = info.new_pk]

\* what may be typed at "Migrate N items? (yes/no)"
ConfirmInputs == {StrYes, StrYCap, StrNo, <<>>}

\* how a call of the table ends: it returns, or raises ClientError
CallOutcomes == {"ok", "ClientError"}

\* the body of the migration loop for one entry: delete_item of the old key,
\* then put_item of the new item; a ClientError of either ends the iteration
AfterItem(tbl, info, del, put) ==
    IF del # "ok" THEN [tbl |-> tbl, ok |-> FALSE]
    ELSE LET t1 == [k \in DOMAIN tbl \ {<<info.old_pk, info.old_sk>>} |-> tbl[k]]
         IN  IF put # "ok" THEN [tbl |-> t1, ok |-> FALSE]
             ELSE [tbl |-> Put(t1, NewItem(info)), ok |-> TRUE]

\* the scan, the listing and the dry-run return
MigrateScan ==
    /\ mpc = "scan"
    /\ \E q \in Orderings(Selected(store)) :
          items_to_migrate' = [i \in DOMAIN q |-> InfoOf(q[i])]
    /\ midx' = 1
    /\ mpc' = IF mdry THEN "done" ELSE "confirm"
    /\ UNCHANGED <<mdry, mcounts>>
    /\ UNCHANGED <<priorVars, store, retryVars, rerunVars, lambdaVars>>

\* input(...) and "if response.lower() not in ['yes', 'y']"
MigrateConfirm ==
    /\ mpc = "confirm"
    /\ \E typed \in ConfirmInputs :
          mpc' = IF StrLower(typed) \notin {StrYes, StrLower(StrYCap)} THEN "done"
                 ELSE IF items_to_migrate = <<>> THEN "done"
                 ELSE "migrate"
    /\ UNCHANGED <<mdry, items_to_migrate, midx, mcounts>>
    /\ UNCHANGED <<priorVars, store, retryVars, rerunVars, lambdaVars>>

\* one iteration of "for item_info in items_to_migrate"
MigrateItem ==
    /\ mpc = "migrate"
    /\ \E del \in CallOutcomes, put \in CallOutcomes :
          LET r == AfterItem(store, items_to_migrate[midx], del, put) IN
          /\ store' = r.tbl
          /\ mcounts' = IF r.ok THEN [mcounts EXCEPT !.success = @ + 1]
                                ELSE [mcounts EXCEPT !.error = @ + 1]
    /\ midx' = midx + 1
    /\ mpc' = IF midx = Len(items_to_migrate) THEN "done" ELSE "migrate"
    /\ UNCHANGED <<mdry, items_to_migrate>>
    /\ UNCHANGED <<priorVars, retryVars, rerunVars, lambdaVars>>

InitMigrate ==
    /\ ParseIdle
    /\ IngestIdle
    /\ CreateIdle
    /\ DeleteIdle
    /\ NormIdle
    /\ ReconcileIdle
    /\ BulkIdle
    /\ RetryIdle
    /\ RerunIdle
    /\ LambdaIdle
    /\ \E S \in SUBSET MigrateStored : store = TableOf(S)
    /\ mpc = "scan"
    /\ mdry \in BOOLEAN
    /\ items_to_migrate = <<>>
    /\ midx = 0
    /\ mcounts = [success |-> 0, error |-> 0]

NextMigrate == MigrateScan \/ MigrateConfirm \/ MigrateItem

SpecMigrate == InitMigrate /\ [][NextMigrate]_vars

\* the table holds the entry's item under its old key, or its new item under
\* the new key
HeldOldOrNew(tbl, info) ==
    \/ /\ <<info.old_pk, info.old_sk>> \in DOMAIN tbl
       /\ tbl[<<info.old_pk, info.old_sk>>] = info.item
    \/ /\ <<info.new_pk, info.old_sk>> \in DOMAIN tbl
       /\ tbl[<<info.new_pk, info.old_sk>>] = NewItem(info)

\* C30: migrate_items never loses a record: at the end of the run the store
\* holds every item selected for migration under its old key or its new key,
\* whether the store calls succeeded or failed.
C30_NoRecordLost ==
    mpc = "done" =>
        \A i \in DOMAIN items_to_migrate : HeldOldOrNew(store, items_to_migrate[i])

====
